---- MODULE Spec2Model ----
(***************************************************************************)
(* Scheduling and delivery engine of the reminder/poll broadcast bot       *)
(* (src/bot.py).  Time is counted in seconds of UTC; second 0 is a Monday  *)
(* 00:00 UTC.  Local (Moscow) civil time is UTC + 3 h, without DST.        *)
(***************************************************************************)
EXTENDS Integers, Sequences, FiniteSets, Bags, TLC

(* ---------------------------------------------------------------------- *)
(* Program constants                                                      *)
(* ---------------------------------------------------------------------- *)
MskOffsetHours == 3
GraceSeconds == 3600
MissedDelay == 5
Hour == 60 * 60
Day == 24 * Hour
Week == 7 * Day
MskOffset == MskOffsetHours * Hour

(* ---------------------------------------------------------------------- *)
(* Bounds of the model                                                    *)
(* ---------------------------------------------------------------------- *)
MaxRecords == 1
MaxFirings == 1
MaxTime == 90000

NoTime == 0 - 1

Chats == {"c1", "c2"}
Texts == {"X"}
\* local civil datetimes a once record may carry: Monday 04:00 MSK
OnceTimes == {MskOffset + Hour}
\* local times of day a daily / weekly record may carry: 04:00 MSK
DayTimes == {<<4, 0>>}
WeekDays == {0}
\* instants (UTC) the clock may jump to, besides the run times of live jobs
Instants == {Hour, Hour + 1800, 2 * Hour, 2 * Hour + 1}

(* ---------------------------------------------------------------------- *)
(* State                                                                  *)
(* ---------------------------------------------------------------------- *)
VARIABLES
    now,          \* UTC clock, seconds
    reminders,    \* reminders.json: list of records
    polls,        \* polls.json: list of records
    chats,        \* subscribed_chats.json: list of chat ids
    jobs,         \* bag of live jobs of the job queue
    firings,      \* running send_reminder / send_poll callbacks
    sheetsInit,   \* sheets_manager.is_initialized
    shReminders,  \* backup store: reminder rows
    shPolls,      \* backup store: poll rows
    shChats,      \* backup store: subscriber ids
    blockedEver,  \* chats some firing classified as permanently unreachable
    fired,        \* history: firings started per collection and id since creation
    created,      \* history: number of records created so far
    creating,     \* running creation handlers: what each has loaded so far
    guard,        \* error_handler on a Conflict: its position, the updater, its steps
    lastOp        \* history: the operation that produced this state

vars == <<now, reminders, polls, chats, jobs, firings, sheetsInit,
          shReminders, shPolls, shChats, blockedEver, fired, created, creating, guard,
          lastOp>>

(* ---------------------------------------------------------------------- *)
(* Time model                                                             *)
(* ---------------------------------------------------------------------- *)
\* get_moscow_time(): the current local civil time
get_moscow_time(t) == t + MskOffset

\* moscow_dt.astimezone(pytz.UTC): local civil datetime to UTC instant
moscow_time_to_utc(dt) == dt - MskOffset

\* utc_hour = (h - 3) % 24
utc_hour(h) == (h - MskOffsetHours) % 24

\* run_daily(callback, time): cron trigger in UTC; its first run is the first
\* instant after t whose UTC time of day is hh:mm (code running in second t
\* runs a moment after the job runner has dispatched the jobs due at t)
NextDaily(t, hh, mm) ==
    LET tod == hh * Hour + mm * 60
        base == (t \div Day) * Day + tod
    IN  IF base > t THEN base ELSE base + Day

\* run_daily(callback, time, days=(wd,)): cron trigger with day_of_week = wd,
\* evaluated in UTC; 0 is Monday
NextWeekly(t, wd, hh, mm) ==
    LET tow == wd * Day + hh * Hour + mm * 60
        base == (t \div Week) * Week + tow
    IN  IF base > t THEN base ELSE base + Week

(* ---------------------------------------------------------------------- *)
(* Records and the local store                                            *)
(* ---------------------------------------------------------------------- *)
OnceRecord(id, dt, txt) ==
    [id |-> id, type |-> "once", dt |-> dt, day |-> 0, h |-> 0, m |-> 0,
     text |-> txt, last_sent |-> NoTime, status |-> "Active"]

DailyRecord(id, hm, txt) ==
    [id |-> id, type |-> "daily", dt |-> NoTime, day |-> 0, h |-> hm[1], m |-> hm[2],
     text |-> txt, last_sent |-> NoTime, status |-> "Active"]

WeeklyRecord(id, wd, hm, txt) ==
    [id |-> id, type |-> "weekly", dt |-> NoTime, day |-> wd, h |-> hm[1], m |-> hm[2],
     text |-> txt, last_sent |-> NoTime, status |-> "Active"]

NewRecords(id) ==
    {OnceRecord(id, dt, txt) : dt \in OnceTimes, txt \in Texts}
    \cup {DailyRecord(id, hm, txt) : hm \in DayTimes, txt \in Texts}
    \cup {WeeklyRecord(id, wd, hm, txt) : wd \in WeekDays, hm \in DayTimes, txt \in Texts}

Range(s) == {s[i] : i \in 1..Len(s)}
Ids(s) == {s[i].id : i \in 1..Len(s)}
SetMax(S) == IF S = {} THEN 0 ELSE CHOOSE x \in S : \A y \in S : y <= x

\* [r for r in records if r.get("id") != id]
\* variant: the filter keeps the records of that id and drops the others
WithoutId_only(s, id) == SelectSeq(s, LAMBDA r : r.id = id)

WithoutId(s, id) == SelectSeq(s, LAMBDA r : r.id # id)

\* variant: a record that is not in the list is appended
ReplaceFirst_upsert(s, rec) ==
    IF \E i \in 1..Len(s) : s[i].id = rec.id
    THEN LET k == CHOOSE i \in 1..Len(s) :
                    s[i].id = rec.id /\ \A j \in 1..(i - 1) : s[j].id # rec.id
         IN  [s EXCEPT ![k] = rec]
    ELSE Append(s, rec)

\* for i, p in enumerate(polls): if p.id == rec.id: polls[i] = rec; break
ReplaceFirst(s, rec) ==
    IF \E i \in 1..Len(s) : s[i].id = rec.id
    THEN LET k == CHOOSE i \in 1..Len(s) :
                    s[i].id = rec.id /\ \A j \in 1..(i - 1) : s[j].id # rec.id
         IN  [s EXCEPT ![k] = rec]
    ELSE s

\* variant: the maximum itself, without the increment
get_next_reminder_id_max(rs) == IF rs = <<>> THEN 1 ELSE SetMax(Ids(rs))

\* get_next_reminder_id(): (max local id) + 1
get_next_reminder_id(rs) == SetMax(Ids(rs)) + 1

\* get_next_poll_id(): max(local max, sheets max) + 1; sheets max is 0 when
\* the backup store cannot be asked
get_next_poll_id(ps, sheetsMax) ==
    LET local_max_id == SetMax(Ids(ps))
    IN  (IF local_max_id >= sheetsMax THEN local_max_id ELSE sheetsMax) + 1

(* ---------------------------------------------------------------------- *)
(* Scheduler: the job queue                                               *)
(* ---------------------------------------------------------------------- *)
\* a job name: f"{pfx}_{id}" or f"{pfx}_{id}_missed"
JobName(pfx, id, missed) == [pfx |-> pfx, id |-> id, missed |-> missed]

Job(name, trig, next, ctx) == [name |-> name, trig |-> trig, next |-> next, ctx |-> ctx]

\* job_queue.run_once / run_daily: one more live job (names need not be unique)
AddJob(js, j) == js (+) SetToBag({j})

\* for job in job_queue.jobs(): if job.name == name: job.schedule_removal()
RemoveNamed(js, name) ==
    [j \in {x \in DOMAIN js : x.name # name} |-> js[j]]

\* variant: removes the jobs named f"{pfx}_{id}" only, not the "_missed" ones
RemovePrefix_exact(js, pfx) ==
    [j \in {x \in DOMAIN js : x.name.pfx # pfx \/ x.name.missed} |-> js[j]]

\* for job in job_queue.jobs(): if job.name.startswith(pfx + '_'): job.schedule_removal()
RemovePrefix(js, pfx) ==
    [j \in {x \in DOMAIN js : x.name.pfx # pfx} |-> js[j]]

JobsOf(js, pfx, id) == {j \in DOMAIN js : j.name.pfx = pfx /\ j.name.id = id}

\* number of live jobs of record id in collection pfx
JobCount(js, pfx, id) ==
    LET S == JobsOf(js, pfx, id)
        RECURSIVE Sum(_)
        Sum(T) == IF T = {} THEN 0
                  ELSE LET j == CHOOSE x \in T : TRUE IN js[j] + Sum(T \ {j})
    IN  Sum(S)

\* the fields the trigger of a record of each type is read from
TriggerFields(type) ==
    CASE type = "once" -> {"dt"}
      [] type = "daily" -> {"h", "m"}
      [] type = "weekly" -> {"day", "h", "m"}
      [] OTHER -> {}

\* reading the trigger of the record raises: the type is missing, or a
\* trigger field is missing or holds text that does not parse (such a record
\* has the text under "raw" and no value for the field)
Malformed(rec) ==
    \/ "type" \notin DOMAIN rec
    \/ ~(TriggerFields(rec.type) \subseteq DOMAIN rec)

\* the record a poll creation flow builds from what it collected: the id is
\* the text get_next_poll_id returns (id_str; the field id holds the number
\* it spells), and the weekly flow stores the weekday as the number of the
\* pressed button (day_num), not as a name that days_map knows, so the
\* record has no weekday to parse
FlowPoll(proto) ==
    LET kept == IF proto.type = "weekly" THEN DOMAIN proto \ {"day"} ELSE DOMAIN proto
        added == IF proto.type = "weekly" THEN {"day_num", "id_str"} ELSE {"id_str"}
    IN  [f \in kept \cup added |->
            CASE f = "day_num" -> proto.day
              [] f = "id_str" -> TRUE
              [] OTHER -> proto[f]]

\* the stored id is a text, not a number
IsStrId(rec) == "id_str" \in DOMAIN rec

\* the ids that `poll.get('id') == poll_number` can match, poll_number an int
IntIds(s) == {s[i].id : i \in {k \in 1..Len(s) : ~IsStrId(s[k])}}

\* a scheduling whose failure takes the jobs of the whole collection along
schedule_reminder_cancelling(js, reminder, t) ==
    LET name == JobName("reminder", reminder.id, FALSE)
        cleared == RemoveNamed(js, name)
    IN  IF Malformed(reminder) THEN RemovePrefix(js, "reminder")
        ELSE
        CASE reminder.type = "once" ->
                 IF reminder.dt > get_moscow_time(t)
                 THEN AddJob(cleared, Job(name, "date", moscow_time_to_utc(reminder.dt), reminder))
                 ELSE cleared
          [] reminder.type = "daily" ->
                 AddJob(cleared, Job(name, "daily",
                                     NextDaily(t, utc_hour(reminder.h), reminder.m), reminder))
          [] reminder.type = "weekly" ->
                 AddJob(cleared, Job(name, "weekly",
                                     NextWeekly(t, reminder.day, utc_hour(reminder.h), reminder.m),
                                     reminder))
          [] OTHER -> cleared

schedule_reminder(js, reminder, t) ==
    LET name == JobName("reminder", reminder.id, FALSE)
        cleared == RemoveNamed(js, name)
    IN  IF Malformed(reminder) THEN cleared
        ELSE
        CASE reminder.type = "once" ->
                 IF reminder.dt > get_moscow_time(t)
                 THEN AddJob(cleared, Job(name, "date", moscow_time_to_utc(reminder.dt), reminder))
                 ELSE cleared
          [] reminder.type = "daily" ->
                 AddJob(cleared, Job(name, "daily",
                                     NextDaily(t, utc_hour(reminder.h), reminder.m), reminder))
          [] reminder.type = "weekly" ->
                 AddJob(cleared, Job(name, "weekly",
                                     NextWeekly(t, reminder.day, utc_hour(reminder.h), reminder.m),
                                     reminder))
          [] OTHER -> cleared

\* variant: the missed-trigger branch without the grace comparison
schedule_poll_nograce(js, poll, t) ==
    LET name == JobName("poll", poll.id, FALSE)
        cleared == RemoveNamed(js, name)
    IN  IF Malformed(poll) THEN cleared
        ELSE
        CASE poll.type = "once" ->
                 IF poll.dt > get_moscow_time(t)
                 THEN AddJob(cleared, Job(name, "date", moscow_time_to_utc(poll.dt), poll))
                 ELSE AddJob(cleared, Job(JobName("poll", poll.id, TRUE), "date",
                                          t + MissedDelay, poll))
          [] poll.type = "daily" ->
                 AddJob(cleared, Job(name, "daily",
                                     NextDaily(t, utc_hour(poll.h), poll.m), poll))
          [] poll.type = "weekly" ->
                 AddJob(cleared, Job(name, "weekly",
                                     NextWeekly(t, poll.day, utc_hour(poll.h), poll.m), poll))
          [] OTHER -> cleared

schedule_poll(js, poll, t) ==
    LET name == JobName("poll", poll.id, FALSE)
        cleared == RemoveNamed(js, name)
        time_diff == poll.dt - get_moscow_time(t)
    IN  IF Malformed(poll) THEN cleared
        ELSE
        CASE poll.type = "once" ->
                 IF poll.dt > get_moscow_time(t)
                 THEN AddJob(cleared, Job(name, "date", moscow_time_to_utc(poll.dt), poll))
                 ELSE IF poll.dt <= get_moscow_time(t) /\ time_diff >= 0 - GraceSeconds
                 THEN AddJob(cleared, Job(JobName("poll", poll.id, TRUE), "date",
                                          t + MissedDelay, poll))
                 ELSE cleared
          [] poll.type = "daily" ->
                 AddJob(cleared, Job(name, "daily",
                                     NextDaily(t, utc_hour(poll.h), poll.m), poll))
          [] poll.type = "weekly" ->
                 AddJob(cleared, Job(name, "weekly",
                                     NextWeekly(t, poll.day, utc_hour(poll.h), poll.m), poll))
          [] OTHER -> cleared

RECURSIVE schedule_all_reminders(_, _, _)
schedule_all_reminders(js, rs, t) ==
    IF rs = <<>> THEN js
    ELSE schedule_all_reminders(schedule_reminder(js, Head(rs), t), Tail(rs), t)

RECURSIVE schedule_all_polls(_, _, _)
schedule_all_polls(js, ps, t) ==
    IF ps = <<>> THEN js
    ELSE schedule_all_polls(
             IF Head(ps).status = "Active" THEN schedule_poll(js, Head(ps), t) ELSE js,
             Tail(ps), t)

reschedule_all_reminders(js, rs, t) ==
    schedule_all_reminders(RemovePrefix(js, "reminder"), rs, t)

reschedule_all_polls(js, ps, t) ==
    schedule_all_polls(RemovePrefix(js, "poll"), ps, t)

(* ---------------------------------------------------------------------- *)
(* Backup store (sheets_integration.SheetsManager)                        *)
(* ---------------------------------------------------------------------- *)
\* sync_reminder / sync_poll(record, "CREATE"): a new Active row
ShCreate(rows, rec) == Append(rows, [rec EXCEPT !.status = "Active"])

\* sync_reminder / sync_poll(record, "UPDATE"): the rows of that id take the record
ShUpdate(rows, rec) ==
    [i \in 1..Len(rows) |->
        IF rows[i].id = rec.id THEN [rec EXCEPT !.status = rows[i].status] ELSE rows[i]]

\* sync_reminder / sync_poll(record, "DELETE"): the rows of that id become Deleted
ShDelete(rows, id) ==
    [i \in 1..Len(rows) |->
        IF rows[i].id = id THEN [rows[i] EXCEPT !.status = "Deleted"] ELSE rows[i]]

\* fetch of the Active rows: what restore_*_from_sheets writes to the local file
ShActive(rows) == SelectSeq(rows, LAMBDA r : r.status = "Active")

\* get_max_poll_id()
ShMaxId(rows) == SetMax(Ids(rows))

\* restore_reminders_from_sheets() / restore_polls_from_sheets(): on success
\* the local file is overwritten by the Active rows, on failure it is kept
restore_from_sheets(ok, local, rows) == IF ok THEN ShActive(rows) ELSE local

\* restore_subscribed_chats_file() / sync_subscribed_chats_from_sheets(): on
\* success the local list is replaced by the backup store's list
restore_subscribed_chats_file(ok, local, ids) == IF ok THEN ids ELSE local

\* sheets_manager.sync_x(updated, "UPDATE") then sync_x(updated, "DELETE") in
\* one try block: n is the number of calls that succeed before one raises
ShUpdateThenDelete(rows, upd, n) ==
    CASE n = 0 -> rows
      [] n = 1 -> ShUpdate(rows, upd)
      [] OTHER -> ShDelete(ShUpdate(rows, upd), upd.id)

(* ---------------------------------------------------------------------- *)
(* History helpers                                                        *)
(* ---------------------------------------------------------------------- *)
NoRec == OnceRecord(0, NoTime, "X")
\* the updater polls, no Conflict is being handled
GuardIdle == [pc |-> "idle", polling |-> TRUE, steps |-> <<>>, result |-> "none"]
Op(op, pfx, rec, res) == [op |-> op, pfx |-> pfx, rec |-> rec, res |-> res]
\* steps no property needs to tell apart
Env == Op("env", "none", NoRec, "none")

\* fired[pfx][id].n: firings started for the record created under this id;
\* .future: that record is a once record whose trigger was strictly in the
\* future when it was scheduled; .used: the id has been assigned to a record
MaxFired == 2
Bump(f, pfx, id) == [f EXCEPT ![pfx][id].n = @ + 1]
Tracked(rec, t) ==
    [n |-> 0, future |-> rec.type = "once" /\ rec.dt > get_moscow_time(t), used |-> TRUE]
NoFired == [pfx \in {"reminder", "poll"} |->
               [id \in 1..(MaxRecords + 2) |-> [n |-> 0, future |-> FALSE, used |-> FALSE]]]

(* ---------------------------------------------------------------------- *)
(* Initial state: a fresh deployment, nothing stored, nobody subscribed   *)
(* ---------------------------------------------------------------------- *)
Init ==
    /\ now = 0
    /\ reminders = <<>>
    /\ polls = <<>>
    /\ chats = <<>>
    /\ jobs = EmptyBag
    /\ firings = <<>>
    /\ sheetsInit \in BOOLEAN
    /\ shReminders = <<>>
    /\ shPolls = <<>>
    /\ shChats = <<>>
    /\ blockedEver = {}
    /\ fired = NoFired
    /\ created = 0
    /\ creating = <<>>
    /\ guard = GuardIdle
    /\ lastOp = Op("init", "none", NoRec, "none")

(* ---------------------------------------------------------------------- *)
(* Clock                                                                  *)
(* ---------------------------------------------------------------------- *)
\* The job runner dispatches a job at its run time: while a live job is due
\* nothing else starts, and the clock never passes the run time of a live job.
Due == \E j \in DOMAIN jobs : j.next <= now

Advance(t) ==
    /\ t > now
    /\ t <= MaxTime
    /\ \A j \in DOMAIN jobs : j.next >= t
    /\ now' = t
    /\ lastOp' = Env
    /\ UNCHANGED <<reminders, polls, chats, jobs, firings, sheetsInit,
                   shReminders, shPolls, shChats, blockedEver, fired, created, creating, guard>>

(* ---------------------------------------------------------------------- *)
(* Record creation (the conversation's last step)                         *)
(* ---------------------------------------------------------------------- *)
\* receive_reminder_text / receive_daily_text / receive_weekly_text:
\* load, next id, append, save, mirror CREATE (best effort), schedule_reminder
CreateReminder(proto, ok) ==
    LET new_id == get_next_reminder_id(reminders)
        rec == [proto EXCEPT !.id = new_id]
    IN  /\ ~Due
        /\ created < MaxRecords
        /\ ok => sheetsInit
        /\ reminders' = Append(reminders, rec)
        /\ shReminders' = IF ok THEN ShCreate(shReminders, rec) ELSE shReminders
        /\ jobs' = schedule_reminder(jobs, rec, now)
        /\ fired' = [fired EXCEPT !["reminder"][new_id] = Tracked(rec, now)]
        /\ created' = created + 1
        /\ lastOp' = Op("create", "reminder", rec, IF ok THEN "mirrored" ELSE "local")
        /\ UNCHANGED <<now, polls, chats, firings, sheetsInit, shPolls, shChats, blockedEver,
                       creating, guard>>

\* receive_poll_options / receive_daily_poll_options / receive_weekly_poll_options:
\* load, next id (asks the backup store for its maximum), append, save,
\* schedule_poll, mirror CREATE (best effort)
CreatePoll(proto, okMax, ok) ==
    LET new_id == get_next_poll_id(polls, IF okMax THEN ShMaxId(shPolls) ELSE 0)
        rec == [FlowPoll(proto) EXCEPT !.id = new_id]
    IN  /\ ~Due
        /\ created < MaxRecords
        /\ (ok \/ okMax) => sheetsInit
        /\ polls' = Append(polls, rec)
        /\ jobs' = schedule_poll(jobs, rec, now)
        /\ shPolls' = IF ok THEN ShCreate(shPolls, rec) ELSE shPolls
        /\ fired' = [fired EXCEPT !["poll"][new_id] = Tracked(rec, now)]
        /\ created' = created + 1
        /\ lastOp' = Op("create", "poll", rec, IF ok THEN "mirrored" ELSE "local")
        /\ UNCHANGED <<now, reminders, chats, firings, sheetsInit, shReminders, shChats,
                       blockedEver, creating, guard>>

(* ---------------------------------------------------------------------- *)
(* Subscriber registry                                                    *)
(* ---------------------------------------------------------------------- *)
InSeq(x, s) == \E i \in 1..Len(s) : s[i] = x

\* [cid for cid in chats if cid not in blocked]
WithoutChats(s, blocked) == SelectSeq(s, LAMBDA c : ~InSeq(c, blocked))

\* chats.remove(chat_id): drops the first occurrence
RemoveFirstChat(s, c) ==
    LET k == CHOOSE i \in 1..Len(s) : s[i] = c /\ \A j \in 1..(i - 1) : s[j] # c
    IN  [i \in 1..(Len(s) - 1) |-> IF i < k THEN s[i] ELSE s[i + 1]]

\* subscribe_chat(chat_id): append when new, save, mirror the list (best effort)
\* a subscription that appends without looking
subscribe_chat_blind(c, ok) ==
    /\ ~Due
    /\ ok => sheetsInit
    /\ chats' = Append(chats, c)
    /\ shChats' = IF ok THEN chats' ELSE shChats
    /\ blockedEver' = blockedEver \ {c}
    /\ lastOp' = Env
    /\ UNCHANGED <<now, reminders, polls, jobs, firings, sheetsInit, shReminders, shPolls,
                   fired, created, creating, guard>>

subscribe_chat(c, ok) ==
    /\ ~Due
    /\ ok => (sheetsInit /\ ~InSeq(c, chats))
    /\ chats' = IF InSeq(c, chats) THEN chats ELSE Append(chats, c)
    /\ shChats' = IF ok THEN chats' ELSE shChats
    /\ blockedEver' = blockedEver \ {c}
    /\ lastOp' = Env
    /\ UNCHANGED <<now, reminders, polls, jobs, firings, sheetsInit, shReminders, shPolls,
                   fired, created, creating, guard>>

\* unsubscribe_user(chat_id) from the /unsubscribe command or button
unsubscribe_user(c, ok) ==
    /\ ~Due
    /\ ok => (sheetsInit /\ InSeq(c, chats))
    /\ chats' = IF InSeq(c, chats) THEN RemoveFirstChat(chats, c) ELSE chats
    /\ shChats' = IF ok THEN chats' ELSE shChats
    /\ lastOp' = Env
    /\ UNCHANGED <<now, reminders, polls, jobs, firings, sheetsInit, shReminders, shPolls,
                   blockedEver, fired, created, creating, guard>>

(* ---------------------------------------------------------------------- *)
(* Delivery engine: send_reminder / send_poll                             *)
(* ---------------------------------------------------------------------- *)
\* variant: every record type is treated as a one-time record
IsOnce_any(rec) == rec.type \in {"once", "daily", "weekly"}

\* reminder.get("type") == "once"  /  poll.get("type") == "once" or "one_time"
IsOnce(rec) == rec.type = "once"

Firing(j, cs) ==
    [job |-> j.name, pfx |-> j.name.pfx, ctx |-> j.ctx, chats |-> cs, idx |-> 1,
     total_sent |-> 0, total_failed |-> 0, blocked |-> <<>>]

RemoveAt(s, k) == [i \in 1..(Len(s) - 1) |-> IF i < k THEN s[i] ELSE s[i + 1]]

\* a job runner that drops every job it takes
Dispatched_dropped(js, j) == js (-) SetToBag({j})

\* the job runner takes a due job: a date job leaves the queue, a cron job
\* gets its next run time
Dispatched(js, j) ==
    LET rest == js (-) SetToBag({j})
    IN  CASE j.trig = "date" -> rest
          [] j.trig = "daily" -> AddJob(rest, [j EXCEPT !.next = @ + Day])
          [] OTHER -> AddJob(rest, [j EXCEPT !.next = @ + Week])

\* the local store after the callback's own deletion of its once record
StoreWithout(pfx, id) ==
    /\ reminders' = IF pfx = "reminder" THEN WithoutId(reminders, id) ELSE reminders
    /\ polls' = IF pfx = "poll" THEN WithoutId(polls, id) ELSE polls

MirrorUpdateDelete(pfx, upd, n) ==
    /\ shReminders' = IF pfx = "reminder" THEN ShUpdateThenDelete(shReminders, upd, n)
                      ELSE shReminders
    /\ shPolls' = IF pfx = "poll" THEN ShUpdateThenDelete(shPolls, upd, n) ELSE shPolls

\* Start of send_reminder / send_poll for the due job j, up to the first
\* gateway call.  how is the way the subscriber list is obtained:
\*   "loaded"   subscribed_chats.json holds a non-empty list
\*   "restored" the list was empty, ensure_subscribed_chats_file() returned
\*              True after restore_subscribed_chats_file()
\*   "failed"   the list was empty and the emergency restore failed: an empty
\*              file is written and the callback returns
\*   "skipped"  the job runner does not start a job whose previous run is
\*              still executing (max_instances = 1)
\* n is the number of backup-store calls that succeed in the no-recipient branch.
\* the records some running callback is delivering; MaxFirings bounds how
\* many records are in delivery at once, not the callbacks of one record
Delivering == {<<firings[k].pfx, firings[k].ctx.id>> : k \in 1..Len(firings)}
MaxRunning == MaxFirings * MaxFired

Running(j) ==
    /\ j.trig # "date"
    /\ \E k \in 1..Len(firings) : firings[k].job = j.name /\ firings[k].ctx = j.ctx

FireStart(j, how, n) ==
    LET pfx == j.name.pfx
        ctx == j.ctx
        upd == [ctx EXCEPT !.last_sent = get_moscow_time(now)]
    IN
    /\ BagIn(j, jobs)
    /\ j.next <= now
    /\ how # "skipped" => Cardinality(Delivering \cup {<<pfx, ctx.id>>}) <= MaxFirings
    /\ how # "skipped" => fired[pfx][ctx.id].n < MaxFired
    /\ jobs' = Dispatched(jobs, j)
    /\ (how = "skipped") = Running(j)
    /\ fired' = IF how = "skipped" THEN fired ELSE Bump(fired, pfx, ctx.id)
    /\ UNCHANGED <<now, sheetsInit, shChats, blockedEver, created, creating, guard>>
    /\ CASE how = "skipped" ->
              /\ n = 0
              /\ lastOp' = Op("skip", pfx, ctx, "max_instances")
              /\ UNCHANGED <<chats, firings, reminders, polls, shReminders, shPolls>>
         [] how = "loaded" ->
              /\ chats # <<>>
              /\ n = 0
              /\ firings' = Append(firings, Firing(j, chats))
              /\ lastOp' = Op("fire", pfx, ctx, "fanout")
              /\ UNCHANGED <<chats, reminders, polls, shReminders, shPolls>>
         [] how = "restored" ->
              /\ chats = <<>>
              /\ sheetsInit
              /\ chats' = restore_subscribed_chats_file(TRUE, chats, shChats)
              /\ IF shChats # <<>>
                 THEN /\ n = 0
                      /\ firings' = Append(firings, Firing(j, shChats))
                      /\ lastOp' = Op("fire", pfx, ctx, "fanout")
                      /\ UNCHANGED <<reminders, polls, shReminders, shPolls>>
                 ELSE /\ firings' = firings
                      /\ lastOp' = Op("fire", pfx, ctx, "no_recipients")
                      /\ IF IsOnce(ctx)
                         THEN StoreWithout(pfx, ctx.id) /\ MirrorUpdateDelete(pfx, upd, n)
                         ELSE n = 0 /\ UNCHANGED <<reminders, polls, shReminders, shPolls>>
         [] OTHER ->
              /\ how = "failed"
              /\ chats = <<>>
              /\ n = 0
              /\ chats' = <<>>
              /\ firings' = firings
              /\ lastOp' = Op("fire", pfx, ctx, "restore_failed")
              /\ UNCHANGED <<reminders, polls, shReminders, shPolls>>

\* outcomes of the gateway calls for one subscriber
ReminderOutcomes == {"ok", "perm", "fallback_ok", "fallback_perm", "fallback_fail"}
PollOutcomes == {"ok", "perm", "fail"}

\* one iteration of `for cid in chats[:]` of the running callback number k
SendStep(k, outcome) ==
    /\ k \in 1..Len(firings)
    /\ LET f == firings[k]
           cid == f.chats[f.idx]
       IN  /\ f.idx <= Len(f.chats)
           /\ outcome \in (IF f.pfx = "reminder" THEN ReminderOutcomes ELSE PollOutcomes)
           /\ firings' = [firings EXCEPT ![k] =
                 [f EXCEPT !.idx = @ + 1,
                           !.total_sent = IF outcome \in {"ok", "fallback_ok"} THEN @ + 1 ELSE @,
                           !.total_failed = IF outcome \in {"ok", "fallback_ok"} THEN @ ELSE @ + 1,
                           !.blocked = IF outcome \in {"perm", "fallback_perm"}
                                       THEN Append(@, cid) ELSE @]]
           /\ lastOp' = Env
    /\ UNCHANGED <<now, reminders, polls, chats, jobs, sheetsInit, shReminders, shPolls,
                   shChats, blockedEver, fired, created, creating, guard>>

\* send_reminder after the loop: save the loaded list without the blocked
\* chats (unsubscribe_user then finds them gone and mirrors nothing), delete a
\* once reminder and mirror UPDATE, DELETE; a recurring reminder is not touched
FinishReminder(k, n) ==
    /\ k \in 1..Len(firings)
    /\ LET f == firings[k]
           upd == [f.ctx EXCEPT !.last_sent = get_moscow_time(now)]
       IN  /\ f.pfx = "reminder"
           /\ f.idx > Len(f.chats)
           /\ n > 0 => (sheetsInit /\ IsOnce(f.ctx))
           /\ chats' = IF f.blocked # <<>> THEN WithoutChats(f.chats, f.blocked) ELSE chats
           /\ reminders' = IF IsOnce(f.ctx) THEN WithoutId(reminders, f.ctx.id)
                           ELSE reminders
           /\ shReminders' = IF IsOnce(f.ctx)
                             THEN ShUpdateThenDelete(shReminders, upd, n) ELSE shReminders
           /\ blockedEver' = blockedEver \cup Range(f.blocked)
           /\ firings' = RemoveAt(firings, k)
           /\ lastOp' = Op("fire", "reminder", f.ctx, "done")
    /\ UNCHANGED <<now, polls, jobs, sheetsInit, shPolls, shChats, fired, created, creating, guard>>

\* variant: the once poll leaves the local store only when the backup store
\* has taken the DELETE
FinishPoll_mirrored(k, okC, okU, okD) ==
    /\ k \in 1..Len(firings)
    /\ LET f == firings[k]
           updated_poll == [f.ctx EXCEPT !.last_sent = get_moscow_time(now)]
           once == IsOnce(f.ctx)
           saved == ReplaceFirst(polls, updated_poll)
           sh1 == IF okU THEN ShUpdate(shPolls, updated_poll) ELSE shPolls
       IN  /\ f.pfx = "poll"
           /\ f.idx > Len(f.chats)
           /\ (okC \/ okU \/ okD) => sheetsInit
           /\ okC => f.blocked # <<>>
           /\ okD => once
           /\ chats' = IF f.blocked # <<>> THEN WithoutChats(f.chats, f.blocked) ELSE chats
           /\ shChats' = IF okC THEN chats' ELSE shChats
           /\ polls' = IF once /\ okD THEN WithoutId(saved, f.ctx.id) ELSE saved
           /\ shPolls' = IF okD THEN ShDelete(sh1, f.ctx.id) ELSE sh1
           /\ blockedEver' = blockedEver \cup Range(f.blocked)
           /\ firings' = RemoveAt(firings, k)
           /\ lastOp' = Op("fire", "poll", f.ctx, "done")
    /\ UNCHANGED <<now, reminders, jobs, sheetsInit, shReminders, fired, created, creating, guard>>

\* send_poll after the loop: save the loaded list without the blocked chats
\* and mirror the file (okC), write last_sent into the stored poll and mirror
\* UPDATE (okU), delete a once poll and mirror DELETE (okD)
FinishPoll(k, okC, okU, okD) ==
    /\ k \in 1..Len(firings)
    /\ LET f == firings[k]
           updated_poll == [f.ctx EXCEPT !.last_sent = get_moscow_time(now)]
           once == IsOnce(f.ctx)
           saved == ReplaceFirst(polls, updated_poll)
           sh1 == IF okU THEN ShUpdate(shPolls, updated_poll) ELSE shPolls
       IN  /\ f.pfx = "poll"
           /\ f.idx > Len(f.chats)
           /\ (okC \/ okU \/ okD) => sheetsInit
           /\ okC => f.blocked # <<>>
           /\ okD => once
           /\ chats' = IF f.blocked # <<>> THEN WithoutChats(f.chats, f.blocked) ELSE chats
           /\ shChats' = IF okC THEN chats' ELSE shChats
           /\ polls' = IF once THEN WithoutId(saved, f.ctx.id) ELSE saved
           /\ shPolls' = IF okD THEN ShDelete(sh1, f.ctx.id) ELSE sh1
           /\ blockedEver' = blockedEver \cup Range(f.blocked)
           /\ firings' = RemoveAt(firings, k)
           /\ lastOp' = Op("fire", "poll", f.ctx, "done")
    /\ UNCHANGED <<now, reminders, jobs, sheetsInit, shReminders, fired, created, creating, guard>>

(* ---------------------------------------------------------------------- *)
(* Reconciliation                                                         *)
(* ---------------------------------------------------------------------- *)
\* variant: the reminder jobs are cancelled before the pull is attempted
auto_sync_reminders_eager(ok) ==
    LET synced == restore_from_sheets(ok, reminders, shReminders)
    IN  /\ ~Due
        /\ ok => sheetsInit
        /\ reminders' = synced
        /\ jobs' = IF ok THEN reschedule_all_reminders(jobs, synced, now)
                   ELSE RemovePrefix(jobs, "reminder")
        /\ lastOp' = Op("auto_sync", "reminder", NoRec, IF ok THEN "success" ELSE "failed")
        /\ UNCHANGED <<now, polls, chats, firings, sheetsInit, shReminders, shPolls, shChats,
                       blockedEver, fired, created, creating, guard>>

\* auto_sync_reminders: every 300 s.  ok: restore_reminders_from_sheets()
\* reported success (the local file then holds the Active rows)
auto_sync_reminders(ok) ==
    LET synced == restore_from_sheets(ok, reminders, shReminders)
    IN  /\ ~Due
        /\ ok => sheetsInit
        /\ reminders' = synced
        /\ jobs' = IF ok /\ Len(synced) # Len(reminders)
                   THEN reschedule_all_reminders(jobs, synced, now) ELSE jobs
        /\ lastOp' = Op("auto_sync", "reminder", NoRec, IF ok THEN "success" ELSE "failed")
        /\ UNCHANGED <<now, polls, chats, firings, sheetsInit, shReminders, shPolls, shChats,
                       blockedEver, fired, created, creating, guard>>

\* auto_sync_polls: every 300 s
auto_sync_polls(ok) ==
    LET synced == restore_from_sheets(ok, polls, shPolls)
    IN  /\ ~Due
        /\ ok => sheetsInit
        /\ polls' = synced
        /\ jobs' = IF ok /\ Len(synced) # Len(polls)
                   THEN reschedule_all_polls(jobs, synced, now) ELSE jobs
        /\ lastOp' = Op("auto_sync", "poll", NoRec, IF ok THEN "success" ELSE "failed")
        /\ UNCHANGED <<now, reminders, chats, firings, sheetsInit, shReminders, shPolls,
                       shChats, blockedEver, fired, created, creating, guard>>

\* auto_sync_subscribed_chats: every 300 s; sync_subscribed_chats_from_sheets()
\* replaces the local list by the backup store's list
auto_sync_subscribed_chats(ok) ==
    /\ ~Due
    /\ ok => sheetsInit
    /\ chats' = restore_subscribed_chats_file(ok, chats, shChats)
    /\ lastOp' = Env
    /\ UNCHANGED <<now, reminders, polls, jobs, firings, sheetsInit, shReminders, shPolls,
                   shChats, blockedEver, fired, created, creating, guard>>

\* variant: both collections are rescheduled when either restore succeeded
restore_reminders_both(okC, okR, okP) ==
    LET rs == restore_from_sheets(okR, reminders, shReminders)
        ps == restore_from_sheets(okP, polls, shPolls)
        js1 == IF okR \/ okP THEN reschedule_all_reminders(jobs, rs, now) ELSE jobs
    IN  /\ ~Due
        /\ (okC \/ okR \/ okP) => sheetsInit
        /\ chats' = restore_subscribed_chats_file(okC, chats, shChats)
        /\ reminders' = rs
        /\ polls' = ps
        /\ jobs' = IF okR \/ okP THEN reschedule_all_polls(js1, ps, now) ELSE js1
        /\ lastOp' = Op("restore", IF okR THEN "reminder" ELSE "none", NoRec,
                        IF okP THEN "poll" ELSE "none")
        /\ UNCHANGED <<now, firings, sheetsInit, shReminders, shPolls, shChats,
                       blockedEver, fired, created, creating, guard>>

\* /restore_reminders: restore the chats, the reminders and the polls, then
\* reschedule the collections whose restore succeeded
restore_reminders(okC, okR, okP) ==
    LET rs == restore_from_sheets(okR, reminders, shReminders)
        ps == restore_from_sheets(okP, polls, shPolls)
        js1 == IF okR THEN reschedule_all_reminders(jobs, rs, now) ELSE jobs
    IN  /\ ~Due
        /\ (okC \/ okR \/ okP) => sheetsInit
        /\ chats' = restore_subscribed_chats_file(okC, chats, shChats)
        /\ reminders' = rs
        /\ polls' = ps
        /\ jobs' = IF okP THEN reschedule_all_polls(js1, ps, now) ELSE js1
        /\ lastOp' = Op("restore", IF okR THEN "reminder" ELSE "none", NoRec,
                        IF okP THEN "poll" ELSE "none")
        /\ UNCHANGED <<now, firings, sheetsInit, shReminders, shPolls, shChats,
                       blockedEver, fired, created, creating, guard>>

(* ---------------------------------------------------------------------- *)
(* The program                                                            *)
(* ---------------------------------------------------------------------- *)
Next ==
    \/ \E t \in Instants \cup {j.next : j \in DOMAIN jobs} : Advance(t)
    \/ \E proto \in NewRecords(0), ok \in BOOLEAN : CreateReminder(proto, ok)
    \/ \E proto \in NewRecords(0), okMax \in BOOLEAN, ok \in BOOLEAN : CreatePoll(proto, okMax, ok)
    \/ \E c \in Chats, ok \in BOOLEAN : subscribe_chat(c, ok)
    \/ \E c \in Chats, ok \in BOOLEAN : unsubscribe_user(c, ok)
    \/ \E j \in DOMAIN jobs, how \in {"skipped", "loaded", "restored", "failed"}, n \in 0..2 :
           FireStart(j, how, n)
    \/ \E k \in 1..MaxRunning, o \in ReminderOutcomes \cup PollOutcomes : SendStep(k, o)
    \/ \E k \in 1..MaxRunning, n \in 0..2 : FinishReminder(k, n)
    \/ \E k \in 1..MaxRunning, okC \in BOOLEAN, okU \in BOOLEAN, okD \in BOOLEAN :
           FinishPoll(k, okC, okU, okD)
    \/ \E ok \in BOOLEAN : auto_sync_reminders(ok)
    \/ \E ok \in BOOLEAN : auto_sync_polls(ok)
    \/ \E ok \in BOOLEAN : auto_sync_subscribed_chats(ok)
    \/ \E okC \in BOOLEAN, okR \in BOOLEAN, okP \in BOOLEAN : restore_reminders(okC, okR, okP)

Spec == Init /\ [][Next]_vars

(* ---------------------------------------------------------------------- *)
(* Delivery: the process after startup with stored records                *)
(* ---------------------------------------------------------------------- *)
MaxStored == 1

\* lists of n fresh records with ids first, first + 1, ...
RECURSIVE RecordLists(_, _)
RecordLists(first, n) ==
    IF n = 0 THEN {<<>>}
    ELSE {<<r>> \o rest : r \in NewRecords(first), rest \in RecordLists(first + 1, n - 1)}

StoresUpTo(n) == UNION {RecordLists(1, k) : k \in 0..n}

\* main(): schedule_all_reminders(job_queue); schedule_all_polls(job_queue)
StartupJobs(rs, ps, t) == schedule_all_polls(schedule_all_reminders(EmptyBag, rs, t), ps, t)

\* the history of a process that starts with the records rs and ps stored
StoredFired(rs, ps, t) ==
    [pfx \in {"reminder", "poll"} |-> [id \in 1..(MaxRecords + 2) |->
        LET S == {r \in Range(IF pfx = "reminder" THEN rs ELSE ps) : r.id = id}
        IN  [n |-> 0, future |-> \E r \in S : Tracked(r, t).future, used |-> S # {}]]]

DeliveryInit ==
    /\ now = 0
    /\ reminders \in StoresUpTo(MaxStored)
    /\ polls \in StoresUpTo(MaxStored)
    /\ Len(reminders) + Len(polls) \in 1..MaxStored
    /\ jobs = StartupJobs(reminders, polls, now)
    /\ chats = <<"c1", "c2">>
    /\ firings = <<>>
    /\ sheetsInit \in BOOLEAN
    /\ shReminders = (IF sheetsInit THEN reminders ELSE <<>>)
    /\ shPolls = (IF sheetsInit THEN polls ELSE <<>>)
    /\ shChats = (IF sheetsInit THEN chats ELSE <<>>)
    /\ blockedEver = {}
    /\ fired = StoredFired(reminders, polls, now)
    /\ created = Len(reminders) + Len(polls)
    /\ creating = <<>>
    /\ guard = GuardIdle
    /\ lastOp = Op("init", "none", NoRec, "none")

DeliveryNext ==
    \/ \E t \in {j.next : j \in DOMAIN jobs} : Advance(t)
    \/ \E c \in Chats, ok \in BOOLEAN : subscribe_chat(c, ok)
    \/ \E c \in Chats, ok \in BOOLEAN : unsubscribe_user(c, ok)
    \/ \E j \in DOMAIN jobs, how \in {"skipped", "loaded", "restored", "failed"}, n \in 0..2 :
           FireStart(j, how, n)
    \/ \E k \in 1..MaxRunning, o \in ReminderOutcomes \cup PollOutcomes : SendStep(k, o)
    \/ \E k \in 1..MaxRunning, n \in 0..2 : FinishReminder(k, n)
    \/ \E k \in 1..MaxRunning, okC \in BOOLEAN, okU \in BOOLEAN, okD \in BOOLEAN :
           FinishPoll(k, okC, okU, okD)
    \/ \E ok \in BOOLEAN : auto_sync_subscribed_chats(ok)

DeliverySpec == DeliveryInit /\ [][DeliveryNext]_vars

(* ---------------------------------------------------------------------- *)
(* Reconciliation: creation, firing and the periodic and operator pulls   *)
(* ---------------------------------------------------------------------- *)
\* the clock visits the trigger and an instant past the grace window
ReconInstants == {Hour, 2 * Hour + 1}
\* records the creation flows store here: once and daily
ReconRecords == {r \in NewRecords(0) : r.type \in {"once", "daily"}}

ReconInit ==
    /\ now = 0
    /\ reminders = <<>>
    /\ polls = <<>>
    /\ chats = <<"c1">>
    /\ jobs = EmptyBag
    /\ firings = <<>>
    /\ sheetsInit \in BOOLEAN
    /\ shReminders = <<>>
    /\ shPolls = <<>>
    /\ shChats = (IF sheetsInit THEN chats ELSE <<>>)
    /\ blockedEver = {}
    /\ fired = NoFired
    /\ created = 0
    /\ creating = <<>>
    /\ guard = GuardIdle
    /\ lastOp = Op("init", "none", NoRec, "none")

ReconNext ==
    \/ \E t \in ReconInstants \cup {j.next : j \in DOMAIN jobs} : Advance(t)
    \/ \E proto \in ReconRecords, ok \in BOOLEAN : CreateReminder(proto, ok)
    \/ \E proto \in ReconRecords, okMax \in BOOLEAN, ok \in BOOLEAN : CreatePoll(proto, okMax, ok)
    \/ \E j \in DOMAIN jobs, how \in {"skipped", "loaded", "restored", "failed"}, n \in 0..2 :
           FireStart(j, how, n)
    \/ \E k \in 1..MaxRunning, o \in ReminderOutcomes \cup PollOutcomes : SendStep(k, o)
    \/ \E k \in 1..MaxRunning, n \in 0..2 : FinishReminder(k, n)
    \/ \E k \in 1..MaxRunning, okC \in BOOLEAN, okU \in BOOLEAN, okD \in BOOLEAN :
           FinishPoll(k, okC, okU, okD)
    \/ \E ok \in BOOLEAN : auto_sync_reminders(ok)
    \/ \E ok \in BOOLEAN : auto_sync_polls(ok)
    \/ \E okC \in BOOLEAN, okR \in BOOLEAN, okP \in BOOLEAN : restore_reminders(okC, okR, okP)

ReconSpec == ReconInit /\ [][ReconNext]_vars

(* ---------------------------------------------------------------------- *)
(* Scheduler interface: schedule_*, schedule_all_*, reschedule_all_*      *)
(* applied to a stored collection at one instant of the clock             *)
(* ---------------------------------------------------------------------- *)
MaxJobs == 3

StoreOf(pfx) == IF pfx = "reminder" THEN reminders ELSE polls

SchedInit ==
    /\ now \in {0} \cup Instants
    /\ reminders \in StoresUpTo(MaxStored)
    /\ polls \in StoresUpTo(MaxStored)
    /\ Len(reminders) + Len(polls) \in 1..MaxStored
    /\ jobs = EmptyBag
    /\ chats = <<>>
    /\ firings = <<>>
    /\ sheetsInit = FALSE
    /\ shReminders = <<>>
    /\ shPolls = <<>>
    /\ shChats = <<>>
    /\ blockedEver = {}
    /\ fired = NoFired
    /\ created = Len(reminders) + Len(polls)
    /\ creating = <<>>
    /\ guard = GuardIdle
    /\ lastOp = Op("init", "none", NoRec, "none")

SchedFrame ==
    UNCHANGED <<now, reminders, polls, chats, firings, sheetsInit, shReminders, shPolls,
                shChats, blockedEver, fired, created, creating, guard>>

\* schedule_reminder(job_queue, reminders[i])
ScheduleReminder(i) ==
    /\ i \in 1..Len(reminders)
    /\ jobs' = schedule_reminder(jobs, reminders[i], now)
    /\ BagCardinality(jobs') <= MaxJobs
    /\ lastOp' = Op("schedule", "reminder", reminders[i], "one")
    /\ SchedFrame

\* schedule_poll(job_queue, polls[i])
SchedulePoll(i) ==
    /\ i \in 1..Len(polls)
    /\ jobs' = schedule_poll(jobs, polls[i], now)
    /\ BagCardinality(jobs') <= MaxJobs
    /\ lastOp' = Op("schedule", "poll", polls[i], "one")
    /\ SchedFrame

\* schedule_all_reminders(job_queue)
ScheduleAllReminders ==
    /\ reminders # <<>>
    /\ jobs' = schedule_all_reminders(jobs, reminders, now)
    /\ BagCardinality(jobs') <= MaxJobs
    /\ lastOp' = Op("schedule_all", "reminder", NoRec, "all")
    /\ SchedFrame

\* schedule_all_polls(job_queue)
ScheduleAllPolls ==
    /\ polls # <<>>
    /\ jobs' = schedule_all_polls(jobs, polls, now)
    /\ BagCardinality(jobs') <= MaxJobs
    /\ lastOp' = Op("schedule_all", "poll", NoRec, "all")
    /\ SchedFrame

\* reschedule_all_reminders(job_queue)
RescheduleAllReminders ==
    /\ reminders # <<>>
    /\ jobs' = reschedule_all_reminders(jobs, reminders, now)
    /\ lastOp' = Op("reschedule_all", "reminder", NoRec, "all")
    /\ SchedFrame

\* reschedule_all_polls(job_queue)
RescheduleAllPolls ==
    /\ polls # <<>>
    /\ jobs' = reschedule_all_polls(jobs, polls, now)
    /\ lastOp' = Op("reschedule_all", "poll", NoRec, "all")
    /\ SchedFrame

SchedNext ==
    \/ \E i \in 1..MaxStored : ScheduleReminder(i)
    \/ \E i \in 1..MaxStored : SchedulePoll(i)
    \/ ScheduleAllReminders
    \/ ScheduleAllPolls
    \/ RescheduleAllReminders
    \/ RescheduleAllPolls

SchedSpec == SchedInit /\ [][SchedNext]_vars

(* ---------------------------------------------------------------------- *)
(* Properties                                                             *)
(* ---------------------------------------------------------------------- *)
Recurring == {"daily", "weekly"}

\* the callback of the step into the primed state has returned
Returned(res) == res \in {"done", "no_recipients", "restore_failed"}

\* C1: after a firing of a once record has completed, the record is absent
\* from the local store, whatever the subscriber set was (non-empty, empty, or
\* missing while the backup store cannot restore it).
C1_OnceRecordGoneAfterFiring ==
    [][(lastOp'.op = "fire" /\ Returned(lastOp'.res) /\ lastOp'.rec.type = "once")
           => lastOp'.rec.id \notin
                  Ids(IF lastOp'.pfx = "reminder" THEN reminders' ELSE polls')]_vars

\* C2: a once record whose trigger was strictly in the future when it was
\* scheduled is fired exactly once, however many reconciliation pulls and
\* reschedules happen: never a second firing.
C2_OnceFiresAtMostOnce ==
    \A pfx \in {"reminder", "poll"} : \A id \in DOMAIN fired[pfx] :
        fired[pfx][id].future => fired[pfx][id].n <= 1

\* C3: a chat that a firing classified as permanently unreachable is not in
\* the subscriber list loaded by any later firing, unless subscribe_chat
\* added it again in between.
C3_UnreachableNeverLoadedAgain ==
    [][(lastOp'.op = "fire" /\ lastOp'.res = "fanout")
           => Range(firings'[Len(firings')].chats) \cap blockedEver = {}]_vars

\* C4: no firing of a daily or weekly record removes that record from the
\* local store: a record of that id and type is stored after every step of
\* the callback if it was stored before.
C4_RecurringFiringKeepsRecord ==
    [][(lastOp'.op = "fire" /\ lastOp'.rec.type \in Recurring)
           => LET id == lastOp'.rec.id
                  before == IF lastOp'.pfx = "reminder" THEN reminders ELSE polls
                  after == IF lastOp'.pfx = "reminder" THEN reminders' ELSE polls'
              IN  (\E r \in Range(before) : r.id = id /\ r.type = lastOp'.rec.type)
                      => (\E r \in Range(after) : r.id = id /\ r.type = lastOp'.rec.type)]_vars

\* a daily or weekly firing that met an unreachable chat has returned and its
\* record is still stored
C4_Witness ==
    /\ lastOp.op = "fire"
    /\ lastOp.res = "done"
    /\ lastOp.rec.type \in Recurring
    /\ blockedEver # {}
    /\ lastOp.rec.id \in Ids(StoreOf(lastOp.pfx))

\* C5: after every successful reconciliation pull of a collection the live
\* jobs are exactly the jobs reschedule_all_* derives from the new local
\* store, also when the restored collection has as many records as before.
C5_PullLeavesDerivedJobs ==
    [][(lastOp'.op = "auto_sync" /\ lastOp'.res = "success")
           => jobs' = (IF lastOp'.pfx = "reminder"
                       THEN reschedule_all_reminders(jobs', reminders', now')
                       ELSE reschedule_all_polls(jobs', polls', now'))]_vars

\* C6: a periodic reconciliation tick that runs while the backup store is
\* unavailable, or whose restore reports failure, leaves both local
\* collections and the live jobs as they were.
C6_FailedTickChangesNothing ==
    [][(lastOp'.op = "auto_sync" /\ lastOp'.res = "failed")
           => (reminders' = reminders /\ polls' = polls /\ jobs' = jobs)]_vars

\* a tick has failed while the backup store holds something else than the
\* local store and jobs are live
C6_Witness ==
    /\ lastOp.op = "auto_sync"
    /\ lastOp.res = "failed"
    /\ jobs # EmptyBag
    /\ ShActive(IF lastOp.pfx = "reminder" THEN shReminders ELSE shPolls) # StoreOf(lastOp.pfx)

\* C7: after any sequence of schedule_*, schedule_all_* and reschedule_all_*
\* calls every record id has at most one live job.
C7_AtMostOneJobPerRecord ==
    \A pfx \in {"reminder", "poll"} : \A id \in Ids(StoreOf(pfx)) :
        JobCount(jobs, pfx, id) <= 1

\* C8: with the local store and the clock fixed, reschedule_all_* invoked a
\* second time yields the same live jobs as invoking it once, and no record
\* id has two jobs.
C8_RescheduleAllIdempotent ==
    [][lastOp'.op = "reschedule_all"
           => /\ jobs' = (IF lastOp'.pfx = "reminder"
                          THEN reschedule_all_reminders(jobs', reminders', now')
                          ELSE reschedule_all_polls(jobs', polls', now'))
              /\ \A id \in Ids(IF lastOp'.pfx = "reminder" THEN reminders' ELSE polls') :
                     JobCount(jobs', lastOp'.pfx, id) <= 1]_vars

\* reschedule_all_polls has run on a once poll inside the grace window and
\* left its near-term job
C8_Witness ==
    /\ lastOp.op = "reschedule_all"
    /\ lastOp.pfx = "poll"
    /\ \E j \in DOMAIN jobs : j.name.missed

\* C9: scheduling a once record (reminder or poll) whose trigger lies in the
\* past by no more than the grace window registers a job for it that is due
\* within seconds of the call.
C9_GraceRegistersNearTermJob ==
    [][(/\ lastOp'.op = "schedule"
        /\ lastOp'.rec.type = "once"
        /\ lastOp'.rec.dt <= get_moscow_time(now')
        /\ lastOp'.rec.dt >= get_moscow_time(now') - GraceSeconds)
           => \E j \in DOMAIN jobs' :
                  /\ j.name.pfx = lastOp'.pfx
                  /\ j.ctx = lastOp'.rec
                  /\ j.next <= now' + MissedDelay]_vars

\* C10: scheduling a once record whose trigger lies further in the past than
\* the grace window registers no job for it, so nothing is sent for it.
C10_StaleOnceGetsNoJob ==
    [][(/\ lastOp'.op = "schedule"
        /\ lastOp'.rec.type = "once"
        /\ lastOp'.rec.dt < get_moscow_time(now') - GraceSeconds)
           => /\ JobsOf(jobs', lastOp'.pfx, lastOp'.rec.id) = {}
              /\ \A j \in DOMAIN jobs' : CopiesIn(j, jobs') <= CopiesIn(j, jobs)]_vars

\* schedule_poll has been applied to a once poll older than the grace window
C10_Witness ==
    /\ lastOp.op = "schedule"
    /\ lastOp.pfx = "poll"
    /\ lastOp.rec.type = "once"
    /\ lastOp.rec.dt < get_moscow_time(now) - GraceSeconds
    /\ lastOp.rec \in Range(polls)

\* C11: after a firing of a daily or weekly record with a non-empty
\* subscriber set has completed, the stored record carries last_sent equal to
\* the time of that firing, for reminders and for polls.
C11_RecurringFiringStampsLastSent ==
    [][(lastOp'.op = "fire" /\ lastOp'.res = "done" /\ lastOp'.rec.type \in Recurring)
           => \E r \in Range(IF lastOp'.pfx = "reminder" THEN reminders' ELSE polls') :
                  r.id = lastOp'.rec.id /\ r.last_sent = get_moscow_time(now')]_vars

(* ---------------------------------------------------------------------- *)
(* Weekly records: the scheduler interface applied to weekly records of   *)
(* several weekdays and local times, early morning included               *)
(* ---------------------------------------------------------------------- *)
\* local weekdays (0 is Monday) and local times hh:mm of the weekly records
WeeklyDays == {0, 3, 6}
WeeklyTimes == {<<0, 0>>, <<2, 30>>, <<3, 0>>, <<12, 30>>, <<23, 0>>}
WeeklyRecords == {WeeklyRecord(1, wd, hm, "X") : wd \in WeeklyDays, hm \in WeeklyTimes}

WeeklyInit ==
    /\ now \in {0} \cup Instants
    /\ \E rec \in WeeklyRecords :
           \/ reminders = <<rec>> /\ polls = <<>>
           \/ reminders = <<>> /\ polls = <<rec>>
    /\ jobs = EmptyBag
    /\ chats = <<>>
    /\ firings = <<>>
    /\ sheetsInit = FALSE
    /\ shReminders = <<>>
    /\ shPolls = <<>>
    /\ shChats = <<>>
    /\ blockedEver = {}
    /\ fired = NoFired
    /\ created = 1
    /\ creating = <<>>
    /\ guard = GuardIdle
    /\ lastOp = Op("init", "none", NoRec, "none")

WeeklySpec == WeeklyInit /\ [][SchedNext]_vars

\* datetime.astimezone(MOSCOW_TZ): weekday (0 is Monday) and second of the
\* day of the UTC instant t in local civil time
LocalWeekday(t) == (get_moscow_time(t) \div Day) % 7
LocalSecondOfDay(t) == get_moscow_time(t) % Day

\* C12: every firing instant of the job of a weekly record with local weekday
\* D and local time hh:mm falls, in local time, on weekday D at hh:mm, for
\* every hh in 0..23, local times before 03:00 included.
C12_WeeklyFiresOnLocalWeekday ==
    \A j \in DOMAIN jobs :
        j.trig = "weekly"
            => /\ LocalWeekday(j.next) = j.ctx.day
               /\ LocalSecondOfDay(j.next) = j.ctx.h * Hour + j.ctx.m * 60

(* ---------------------------------------------------------------------- *)
(* Explicit deletion: /del_reminder, /del_poll, /clear_reminders,         *)
(* /clear_polls                                                           *)
(* ---------------------------------------------------------------------- *)
\* reminders.sort(key=lambda x: int(x.get("id", "0"))): stable, ascending
RECURSIVE SortById(_)
SortById(s) ==
    IF s = <<>> THEN <<>>
    ELSE LET lo == CHOOSE i \in 1..Len(s) :
                       /\ \A j \in 1..Len(s) : s[i].id <= s[j].id
                       /\ \A j \in 1..(i - 1) : s[j].id # s[i].id
         IN  <<s[lo]>> \o SortById(RemoveAt(s, lo))

\* confirm_delete_reminder: the user names a position of the id-sorted list;
\* a number outside 1..len is answered and the conversation stays; otherwise
\* mirror DELETE (best effort), remove the records of that id, reschedule all,
\* and the conversation goes to conv
DeleteReminderStep(reminder_number, ok, conv) ==
    /\ ~Due
    /\ ok => (sheetsInit /\ reminder_number \in 1..Len(reminders))
    /\ IF reminder_number \notin 1..Len(reminders)
       THEN /\ lastOp' = Op("delete", "reminder", NoRec, "invalid")
            /\ UNCHANGED <<reminders, jobs, shReminders, creating>>
       ELSE LET reminder_to_delete == SortById(reminders)[reminder_number]
                new_list == WithoutId(reminders, reminder_to_delete.id)
            IN  /\ shReminders' = IF ok THEN ShDelete(shReminders, reminder_to_delete.id)
                                  ELSE shReminders
                /\ reminders' = new_list
                /\ jobs' = reschedule_all_reminders(jobs, new_list, now)
                /\ lastOp' = Op("delete", "reminder", reminder_to_delete,
                                IF ok THEN "mirrored" ELSE "local")
                /\ creating' = conv
    /\ UNCHANGED <<now, polls, chats, firings, sheetsInit, shPolls, shChats, blockedEver,
                   fired, created, guard>>

\* a valid number, outside of a modelled conversation
confirm_delete_reminder(reminder_number, ok) ==
    /\ reminder_number \in 1..Len(reminders)
    /\ DeleteReminderStep(reminder_number, ok, creating)

\* confirm_delete_poll: the user names an id; stop the job poll_<id>, mirror
\* DELETE (best effort), remove the records of that id, reschedule all
confirm_delete_poll(poll_number, ok) ==
    /\ ~Due
    /\ ok => (sheetsInit /\ poll_number \in IntIds(polls))
    /\ IF poll_number \notin IntIds(polls)
       THEN /\ lastOp' = Op("delete", "poll", [NoRec EXCEPT !.id = poll_number], "not_found")
            /\ UNCHANGED <<polls, jobs, shPolls>>
       ELSE LET poll_to_delete == CHOOSE p \in Range(polls) :
                    \E i \in 1..Len(polls) :
                        /\ polls[i] = p
                        /\ ~IsStrId(p)
                        /\ p.id = poll_number
                        /\ \A j \in 1..(i - 1) :
                               IsStrId(polls[j]) \/ polls[j].id # poll_number
                stopped == RemoveNamed(jobs, JobName("poll", poll_number, FALSE))
                new_list == WithoutId(polls, poll_to_delete.id)
            IN  /\ shPolls' = IF ok THEN ShDelete(shPolls, poll_to_delete.id) ELSE shPolls
                /\ polls' = new_list
                /\ jobs' = reschedule_all_polls(stopped, new_list, now)
                /\ lastOp' = Op("delete", "poll", poll_to_delete,
                                IF ok THEN "mirrored" ELSE "local")
    /\ UNCHANGED <<now, reminders, chats, firings, sheetsInit, shReminders, shChats,
                   blockedEver, fired, created, creating, guard>>

\* the rows of the ids in S become Deleted: one sync_x(record, "DELETE") per
\* stored record, each of which may fail
RECURSIVE ShDeleteAll(_, _)
ShDeleteAll(rows, S) ==
    IF S = {} THEN rows
    ELSE LET id == CHOOSE x \in S : TRUE IN ShDeleteAll(ShDelete(rows, id), S \ {id})

\* clear_reminders: mirror DELETE per record (S: those that succeed), save an
\* empty list, remove every reminder_ job
clear_reminders(S) ==
    /\ ~Due
    /\ S \subseteq Ids(reminders)
    /\ S # {} => sheetsInit
    /\ shReminders' = ShDeleteAll(shReminders, S)
    /\ reminders' = <<>>
    /\ jobs' = RemovePrefix(jobs, "reminder")
    /\ lastOp' = Op("clear", "reminder", NoRec, "all")
    /\ UNCHANGED <<now, polls, chats, firings, sheetsInit, shPolls, shChats, blockedEver,
                   fired, created, creating, guard>>

\* clear_polls: mirror DELETE per record, save an empty list, remove every
\* poll_ job
clear_polls(S) ==
    /\ ~Due
    /\ S \subseteq Ids(polls)
    /\ S # {} => sheetsInit
    /\ shPolls' = ShDeleteAll(shPolls, S)
    /\ polls' = <<>>
    /\ jobs' = RemovePrefix(jobs, "poll")
    /\ lastOp' = Op("clear", "poll", NoRec, "all")
    /\ UNCHANGED <<now, reminders, chats, firings, sheetsInit, shReminders, shChats,
                   blockedEver, fired, created, creating, guard>>

(* ---------------------------------------------------------------------- *)
(* Store: a process that starts with stored records; creation, firing and *)
(* explicit deletion, one handler at a time                               *)
(* ---------------------------------------------------------------------- *)
StoreInit ==
    /\ now = 0
    /\ reminders \in StoresUpTo(MaxStored)
    /\ polls \in StoresUpTo(MaxStored)
    /\ Len(reminders) + Len(polls) \in 1..MaxStored
    /\ jobs = StartupJobs(reminders, polls, now)
    /\ chats = <<"c1">>
    /\ firings = <<>>
    /\ sheetsInit \in BOOLEAN
    /\ shReminders = (IF sheetsInit THEN reminders ELSE <<>>)
    /\ shPolls = (IF sheetsInit THEN polls ELSE <<>>)
    /\ shChats = (IF sheetsInit THEN chats ELSE <<>>)
    /\ blockedEver = {}
    /\ fired = StoredFired(reminders, polls, now)
    /\ created = 0
    /\ creating = <<>>
    /\ guard = GuardIdle
    /\ lastOp = Op("init", "none", NoRec, "none")

StoreNext ==
    \/ \E t \in {j.next : j \in DOMAIN jobs} : Advance(t)
    \/ \E proto \in ReconRecords, ok \in BOOLEAN : CreateReminder(proto, ok)
    \/ \E proto \in ReconRecords, ok \in BOOLEAN : CreatePoll(proto, ok, ok)
    \/ \E j \in DOMAIN jobs, how \in {"skipped", "loaded", "restored", "failed"} :
           FireStart(j, how, 0)
    \/ \E k \in 1..MaxRunning : SendStep(k, "ok")
    \/ \E k \in 1..MaxRunning, n \in {0, 2} : FinishReminder(k, n)
    \/ \E k \in 1..MaxRunning, ok \in BOOLEAN : FinishPoll(k, FALSE, ok, ok /\ IsOnce(firings[k].ctx))
    \/ \E i \in 1..(MaxStored + MaxRecords), ok \in BOOLEAN : confirm_delete_reminder(i, ok)
    \/ \E id \in 1..(MaxStored + MaxRecords), ok \in BOOLEAN : confirm_delete_poll(id, ok)
    \/ \E ok \in BOOLEAN : clear_reminders(IF ok THEN Ids(reminders) ELSE {})
    \/ \E ok \in BOOLEAN : clear_polls(IF ok THEN Ids(polls) ELSE {})

StoreSpec == StoreInit /\ [][StoreNext]_vars

\* C13: the id given to a newly created record is strictly greater than every
\* id assigned before in that collection, so the id of a record that has
\* since been removed is never assigned again.
C13_NewIdAboveEveryAssignedId ==
    [][lastOp'.op = "create"
           => \A id \in DOMAIN fired[lastOp'.pfx] :
                  fired[lastOp'.pfx][id].used => id < lastOp'.rec.id]_vars

\* C14: in every state reached by creation, firings and explicit deletions,
\* handlers running one at a time, no two records of a collection share an id.
C14_IdsUniqueInStore ==
    /\ \A i, j \in 1..Len(reminders) : reminders[i].id = reminders[j].id => i = j
    /\ \A i, j \in 1..Len(polls) : polls[i].id = polls[j].id => i = j

\* a record has been created next to a stored one
C14_Witness ==
    /\ lastOp.op = "create"
    /\ Len(StoreOf(lastOp.pfx)) >= 2

\* C15: no two firings of the same record are in progress at the same time,
\* also when a reconciliation-triggered reschedule runs during the fan-out.
C15_NoOverlappingFirings ==
    \A i, j \in 1..Len(firings) :
        (firings[i].pfx = firings[j].pfx /\ firings[i].ctx.id = firings[j].ctx.id) => i = j

\* C16: a subscribe_chat or unsubscribe_user that completes during a firing's
\* fan-out survives the firing's removal of unreachable subscribers: when the
\* firing returns, no subscriber is lost except those found unreachable, and
\* no subscriber that had been removed is back.
C16_RegistryChangeSurvivesFiring ==
    [][(lastOp'.op = "fire" /\ lastOp'.res = "done")
           => /\ \A c \in Range(chats) : c \in Range(chats') \/ c \in blockedEver'
              /\ \A c \in Range(chats') : c \in Range(chats)]_vars

(* ---------------------------------------------------------------------- *)
(* Record creation, statement by statement                                *)
(* ---------------------------------------------------------------------- *)
\* The creation handlers run in the dispatcher's thread, one update at a
\* time; the firings run in the job queue's threads.  No lock guards the
\* files, so a firing can run between any two statements of a handler.

\* reminders = load_reminders()  /  polls = load_polls()
CreateLoad(pfx, proto) ==
    /\ ~Due
    /\ creating = <<>>
    /\ guard = GuardIdle
    /\ created < MaxRecords
    /\ creating' = <<[pfx |-> pfx, proto |-> proto, list |-> StoreOf(pfx), new_id |-> 0]>>
    /\ lastOp' = Env
    /\ UNCHANGED <<now, reminders, polls, chats, jobs, firings, sheetsInit, shReminders,
                   shPolls, shChats, blockedEver, fired, created, guard>>

\* new_id = get_next_reminder_id()  /  poll_id = get_next_poll_id():
\* both read the file again
CreateNextId(okMax) ==
    /\ creating # <<>>
    /\ creating[1].new_id = 0
    /\ okMax => sheetsInit /\ creating[1].pfx = "poll"
    /\ creating' = <<[creating[1] EXCEPT !.new_id =
                         IF creating[1].pfx = "reminder"
                         THEN get_next_reminder_id(reminders)
                         ELSE get_next_poll_id(polls, IF okMax THEN ShMaxId(shPolls) ELSE 0)]>>
    /\ lastOp' = Env
    /\ UNCHANGED <<now, reminders, polls, chats, jobs, firings, sheetsInit, shReminders,
                   shPolls, shChats, blockedEver, fired, created, guard>>

\* append to the list loaded first, save it, mirror CREATE (best effort),
\* schedule the new record
CreateSave(ok) ==
    /\ creating # <<>>
    /\ creating[1].new_id # 0
    /\ ok => sheetsInit
    /\ LET h == creating[1]
           rec == [(IF h.pfx = "poll" THEN FlowPoll(h.proto) ELSE h.proto)
                      EXCEPT !.id = h.new_id]
       IN  /\ IF h.pfx = "reminder"
              THEN /\ reminders' = Append(h.list, rec)
                   /\ shReminders' = IF ok THEN ShCreate(shReminders, rec) ELSE shReminders
                   /\ jobs' = schedule_reminder(jobs, rec, now)
                   /\ UNCHANGED <<polls, shPolls>>
              ELSE /\ polls' = Append(h.list, rec)
                   /\ shPolls' = IF ok THEN ShCreate(shPolls, rec) ELSE shPolls
                   /\ jobs' = schedule_poll(jobs, rec, now)
                   /\ UNCHANGED <<reminders, shReminders>>
           /\ fired' = [fired EXCEPT ![h.pfx][h.new_id] = Tracked(rec, now)]
           /\ lastOp' = Op("create", h.pfx, rec, IF ok THEN "mirrored" ELSE "local")
    /\ created' = created + 1
    /\ creating' = <<>>
    /\ UNCHANGED <<now, chats, firings, sheetsInit, shChats, blockedEver, guard>>

\* a deployment with stored records; records are created while jobs fire
RaceNext ==
    \/ \E t \in {j.next : j \in DOMAIN jobs} : Advance(t)
    \/ \E pfx \in {"reminder", "poll"}, proto \in ReconRecords : CreateLoad(pfx, proto)
    \/ \E okMax \in BOOLEAN : CreateNextId(okMax)
    \/ \E ok \in BOOLEAN : CreateSave(ok)
    \/ \E j \in DOMAIN jobs : FireStart(j, "loaded", 0)
    \/ \E k \in 1..MaxRunning : SendStep(k, "ok")
    \/ \E k \in 1..MaxRunning : FinishReminder(k, 0)
    \/ \E k \in 1..MaxRunning, ok \in BOOLEAN : FinishPoll(k, FALSE, ok, ok /\ IsOnce(firings[k].ctx))

RaceSpec == StoreInit /\ [][RaceNext]_vars

\* C17: however a creation handler (load, append, save) interleaves with a
\* firing's update or deletion of a record of the same collection, both take
\* effect: after the handler's save the store holds the new record and no
\* once record that a firing removed since the handler's load, and the
\* firing's save leaves every other record of the collection in place.
C17_CreationAndFiringBothTakeEffect ==
    [][\A pfx \in {"reminder", "poll"} :
           /\ (lastOp'.op = "create" /\ lastOp'.pfx = pfx)
              => \A i \in 1..Len(StoreOf(pfx)') :
                     \/ i = Len(StoreOf(pfx)')
                     \/ ~IsOnce(StoreOf(pfx)'[i])
                     \/ StoreOf(pfx)'[i] \in Range(StoreOf(pfx))
           /\ (lastOp'.op = "fire" /\ lastOp'.res = "done" /\ lastOp'.pfx = pfx)
              => \A r \in Range(StoreOf(pfx)) :
                     r.id # lastOp'.rec.id => r \in Range(StoreOf(pfx)')]_vars

(* ---------------------------------------------------------------------- *)
(* Removal of records and the live jobs                                   *)
(* ---------------------------------------------------------------------- *)
\* a deployment with stored records: records are created, deleted, cleared,
\* fired, and reconciled with the backup store
SyncNext ==
    \/ \E t \in {j.next : j \in DOMAIN jobs} : Advance(t)
    \/ \E proto \in ReconRecords, ok \in BOOLEAN : CreateReminder(proto, ok)
    \/ \E proto \in ReconRecords, ok \in BOOLEAN : CreatePoll(proto, ok, ok)
    \/ \E j \in DOMAIN jobs : FireStart(j, "loaded", 0)
    \/ \E k \in 1..MaxRunning : SendStep(k, "ok")
    \/ \E k \in 1..MaxRunning : FinishReminder(k, 2)
    \/ \E k \in 1..MaxRunning : FinishPoll(k, FALSE, TRUE, IsOnce(firings[k].ctx))
    \/ \E i \in 1..(MaxStored + MaxRecords), ok \in BOOLEAN : confirm_delete_reminder(i, ok)
    \/ \E id \in 1..(MaxStored + MaxRecords), ok \in BOOLEAN : confirm_delete_poll(id, ok)
    \/ \E ok \in BOOLEAN : clear_reminders(IF ok THEN Ids(reminders) ELSE {})
    \/ \E ok \in BOOLEAN : clear_polls(IF ok THEN Ids(polls) ELSE {})
    \/ \E ok \in BOOLEAN : auto_sync_reminders(ok)
    \/ \E ok \in BOOLEAN : auto_sync_polls(ok)

SyncSpec == StoreInit /\ [][SyncNext]_vars

\* C18: when an explicit deletion, a clear-all or a reconciliation overwrite
\* of a collection has completed, every live job of that collection refers
\* to a record id present in the local store: the job of a removed record is
\* no longer live.
C18_LiveJobsReferToStoredRecords ==
    [][(\/ lastOp'.op \in {"delete", "clear"}
        \/ lastOp'.op = "auto_sync" /\ lastOp'.res = "success")
           => \A j \in DOMAIN jobs' :
                  j.name.pfx = lastOp'.pfx => j.name.id \in Ids(StoreOf(j.name.pfx)')]_vars

\* C19: the local results of a firing's updates after the fan-out (removal
\* of the unreachable subscribers, last_sent of a poll, deletion of a once
\* record) are fixed by the state before them: they are the same when every
\* backup-store call made there fails as when those calls succeed.
C19_LocalMutationsIgnoreBackupFailures ==
    [][(lastOp'.op = "fire" /\ lastOp'.res = "done")
           => LET rec == lastOp'.rec
                  upd == [rec EXCEPT !.last_sent = get_moscow_time(now)]
                  rs == IF IsOnce(rec) THEN WithoutId(reminders, rec.id) ELSE reminders
                  ps == IF IsOnce(rec) THEN WithoutId(ReplaceFirst(polls, upd), rec.id)
                        ELSE ReplaceFirst(polls, upd)
              IN  /\ reminders' = IF lastOp'.pfx = "reminder" THEN rs ELSE reminders
                  /\ polls' = IF lastOp'.pfx = "poll" THEN ps ELSE polls
                  /\ \E k \in 1..Len(firings) :
                         /\ firings' = RemoveAt(firings, k)
                         /\ chats' = IF firings[k].blocked # <<>>
                                     THEN WithoutChats(firings[k].chats, firings[k].blocked)
                                     ELSE chats]_vars

\* a once record fired while the backup store took none of the calls: the
\* record and an unreachable subscriber are gone locally, the backup store
\* still has the row as it was and the full subscriber list
C19_Witness ==
    /\ lastOp.op = "fire" /\ lastOp.res = "done"
    /\ IsOnce(lastOp.rec)
    /\ sheetsInit
    /\ lastOp.rec.id \notin Ids(StoreOf(lastOp.pfx))
    /\ lastOp.rec \in Range(IF lastOp.pfx = "reminder" THEN shReminders ELSE shPolls)
    /\ blockedEver # {}
    /\ Len(chats) < Len(shChats)

\* C20: a firing never puts a record into a collection that does not hold
\* it: when the firing of a once record runs again on the record it captured,
\* after its first run has removed the record, the record stays absent.
C20_FiringNeverReinserts ==
    [][lastOp'.op = "fire"
           => /\ Ids(reminders') \subseteq Ids(reminders)
              /\ Ids(polls') \subseteq Ids(polls)]_vars

\* both runs of a once record have returned, the second after the first had
\* removed the record, and the record is absent
C20_Witness ==
    /\ lastOp.op = "fire" /\ lastOp.res = "done"
    /\ IsOnce(lastOp.rec)
    /\ fired[lastOp.pfx][lastOp.rec.id].n = 2
    /\ firings = <<>>
    /\ lastOp.rec.id \notin Ids(StoreOf(lastOp.pfx))

(* ---------------------------------------------------------------------- *)
(* The operator's restore on a deployment with stored records             *)
(* ---------------------------------------------------------------------- *)
RestoreNext ==
    \/ \E t \in {j.next : j \in DOMAIN jobs} : Advance(t)
    \/ \E proto \in ReconRecords, ok \in BOOLEAN : CreateReminder(proto, ok)
    \/ \E proto \in ReconRecords, ok \in BOOLEAN : CreatePoll(proto, ok, ok)
    \/ \E j \in DOMAIN jobs : FireStart(j, "loaded", 0)
    \/ \E k \in 1..MaxRunning : SendStep(k, "ok")
    \/ \E k \in 1..MaxRunning : FinishReminder(k, 0)
    \/ \E k \in 1..MaxRunning : FinishPoll(k, FALSE, FALSE, FALSE)
    \/ \E okC \in BOOLEAN, okR \in BOOLEAN, okP \in BOOLEAN : restore_reminders(okC, okR, okP)

RestoreSpec == StoreInit /\ [][RestoreNext]_vars

\* C21: in the operator's restore, when the restore of one collection
\* succeeds and that of the other fails, the jobs of the restored collection
\* are the ones reschedule_all_* derives from its new content and the jobs
\* of the other collection are left as they were.
C21_PartialRestoreReschedulesTheRestored ==
    [][lastOp'.op = "restore"
           => /\ (lastOp'.pfx = "reminder" /\ lastOp'.res = "none")
                 => /\ RemovePrefix(jobs', "reminder") = RemovePrefix(jobs, "reminder")
                    /\ RemovePrefix(jobs', "poll")
                           = schedule_all_reminders(EmptyBag, reminders', now')
              /\ (lastOp'.pfx = "none" /\ lastOp'.res = "poll")
                 => /\ RemovePrefix(jobs', "poll") = RemovePrefix(jobs, "poll")
                    /\ RemovePrefix(jobs', "reminder")
                           = schedule_all_polls(EmptyBag, polls', now')]_vars

\* the reminders were restored and rescheduled, the restore of the polls
\* failed, and both collections have a record and a live job
C21_Witness ==
    /\ lastOp.op = "restore" /\ lastOp.pfx = "reminder" /\ lastOp.res = "none"
    /\ reminders # <<>> /\ polls # <<>>
    /\ \E j \in DOMAIN jobs : j.name.pfx = "reminder"
    /\ \E j \in DOMAIN jobs : j.name.pfx = "poll"

(* ---------------------------------------------------------------------- *)
(* Process start: main()                                                  *)
(* ---------------------------------------------------------------------- *)
\* main() runs these steps in this order before the updater starts; lastOp
\* tells which step ran last.  The result of a step is "kept" (the local file
\* was used as it is, no restore was attempted), "restored" or "failed".
StartupStep(pfx, res) == Op("startup", pfx, NoRec, res)

StartupFrame ==
    UNCHANGED <<now, firings, sheetsInit, shReminders, shPolls, shChats, blockedEver,
                fired, created, creating, guard>>

\* ensure_subscribed_chats_file(): a non-empty list is kept; otherwise restore,
\* and write an empty list when the restore is not possible or fails
main_ensure_subscribed_chats_file(ok) ==
    /\ lastOp.op = "init"
    /\ ok => sheetsInit /\ chats = <<>>
    /\ chats' = IF chats # <<>> THEN chats
                ELSE restore_subscribed_chats_file(ok, <<>>, shChats)
    /\ lastOp' = StartupStep("chats", CASE chats # <<>> -> "kept"
                                        [] ok -> "restored"
                                        [] OTHER -> "failed")
    /\ UNCHANGED <<reminders, polls, jobs>>
    /\ StartupFrame

\* ensure_reminders_file(): a non-empty list is kept; otherwise restore, and
\* save an empty list when the restore is not possible or fails
main_ensure_reminders_file(ok) ==
    /\ lastOp.op = "startup" /\ lastOp.pfx = "chats"
    /\ ok => sheetsInit /\ reminders = <<>>
    /\ reminders' = IF reminders # <<>> THEN reminders
                    ELSE restore_from_sheets(ok, <<>>, shReminders)
    /\ lastOp' = StartupStep("reminder", CASE reminders # <<>> -> "kept"
                                           [] ok -> "restored"
                                           [] OTHER -> "failed")
    /\ UNCHANGED <<chats, polls, jobs>>
    /\ StartupFrame

\* ensure_polls_file(): always tries the restore; the local list is the
\* fallback when the restore is not possible or fails
main_ensure_polls_file(ok) ==
    /\ lastOp.op = "startup" /\ lastOp.pfx = "reminder"
    /\ ok => sheetsInit
    /\ polls' = restore_from_sheets(ok, polls, shPolls)
    /\ lastOp' = StartupStep("poll", IF ok THEN "restored" ELSE "failed")
    /\ UNCHANGED <<chats, reminders, jobs>>
    /\ StartupFrame

\* schedule_all_reminders, schedule_all_polls, check_active_jobs, and for a
\* collection without a live job one more restore and reschedule_all_*
main_schedule(okR, okP) ==
    LET js1 == StartupJobs(reminders, polls, now)
        noR == \A j \in DOMAIN js1 : j.name.pfx # "reminder"
        noP == \A j \in DOMAIN js1 : j.name.pfx # "poll"
        rs == restore_from_sheets(okR, reminders, shReminders)
        ps == restore_from_sheets(okP, polls, shPolls)
        js2 == IF okR THEN reschedule_all_reminders(js1, rs, now) ELSE js1
    IN  /\ lastOp.op = "startup" /\ lastOp.pfx = "poll"
        /\ okR => sheetsInit /\ noR
        /\ okP => sheetsInit /\ noP
        /\ reminders' = rs
        /\ polls' = ps
        /\ jobs' = IF okP THEN reschedule_all_polls(js2, ps, now) ELSE js2
        /\ lastOp' = StartupStep("none", "scheduled")
        /\ UNCHANGED chats
        /\ StartupFrame

\* a process start: any local files, any backup content
StartupInit ==
    /\ now = 0
    /\ reminders \in StoresUpTo(MaxStored)
    /\ polls \in StoresUpTo(MaxStored)
    /\ chats \in {<<>>, <<"c1">>}
    /\ jobs = EmptyBag
    /\ firings = <<>>
    /\ sheetsInit \in BOOLEAN
    /\ shReminders \in StoresUpTo(MaxStored)
    /\ shPolls \in StoresUpTo(MaxStored)
    /\ shChats \in {<<>>, <<"c1">>, <<"c2">>}
    /\ blockedEver = {}
    /\ fired = StoredFired(reminders, polls, now)
    /\ created = 0
    /\ creating = <<>>
    /\ guard = GuardIdle
    /\ lastOp = Op("init", "none", NoRec, "none")

StartupNext ==
    \/ \E ok \in BOOLEAN : main_ensure_subscribed_chats_file(ok)
    \/ \E ok \in BOOLEAN : main_ensure_reminders_file(ok)
    \/ \E ok \in BOOLEAN : main_ensure_polls_file(ok)
    \/ \E okR \in BOOLEAN, okP \in BOOLEAN : main_schedule(okR, okP)

StartupSpec == StartupInit /\ [][StartupNext]_vars

\* C22: at process start with the backup store reachable, each local
\* collection (subscribers, reminders, polls) holds the backup store's set
\* when its startup step has run, before any job is scheduled, whatever the
\* collection held locally before.
C22_StartupOverwritesFromBackup ==
    [][(lastOp'.op = "startup" /\ sheetsInit /\ lastOp'.res \in {"kept", "restored"})
           => /\ lastOp'.pfx = "chats" => chats' = shChats
              /\ lastOp'.pfx = "reminder" => reminders' = ShActive(shReminders)
              /\ lastOp'.pfx = "poll" => polls' = ShActive(shPolls)]_vars

(* ---------------------------------------------------------------------- *)
(* error_handler: a Conflict reported by the polling thread               *)
(* ---------------------------------------------------------------------- *)
\* guard.pc is the statement error_handler is at, guard.polling whether the
\* updater consumes updates, guard.steps the calls made for this Conflict,
\* guard.result how the last handling ended.
GuardFrame ==
    UNCHANGED <<now, reminders, polls, chats, firings, sheetsInit, shReminders, shPolls,
                shChats, blockedEver, fired, created, creating>>

\* variant: the handler goes straight to the restart
ConflictSignal_restart ==
    /\ guard.pc = "idle"
    /\ guard.polling
    /\ guard' = [guard EXCEPT !.pc = "restart", !.steps = <<>>, !.result = "none"]
    /\ lastOp' = Op("conflict", "none", NoRec, "signal")
    /\ UNCHANGED jobs
    /\ GuardFrame

\* the polling thread gets telegram.error.Conflict from getUpdates and the
\* dispatcher calls error_handler
ConflictSignal ==
    /\ guard.pc = "idle"
    /\ guard.polling
    /\ guard' = [guard EXCEPT !.pc = "stop", !.steps = <<>>, !.result = "none"]
    /\ lastOp' = Op("conflict", "none", NoRec, "signal")
    /\ UNCHANGED jobs
    /\ GuardFrame

\* updater.stop(): stops the job queue (the scheduler of the job queue is
\* shut down and its in-memory job store emptied), the polling thread and
\* the dispatcher; it returns, or raises while it joins the threads
GuardStop(ok) ==
    /\ guard.pc = "stop"
    /\ guard' = [guard EXCEPT !.pc = IF ok THEN "sleep1" ELSE "idle",
                              !.polling = FALSE,
                              !.steps = Append(@, "stop"),
                              !.result = IF ok THEN "none" ELSE "failed"]
    /\ jobs' = EmptyBag
    /\ lastOp' = Op("conflict", "none", NoRec, IF ok THEN "stopped" ELSE "failed")
    /\ GuardFrame

\* time.sleep(5) / time.sleep(3)
GuardSleep ==
    /\ guard.pc \in {"sleep1", "sleep2"}
    /\ guard' = [guard EXCEPT !.pc = IF guard.pc = "sleep1" THEN "clear" ELSE "restart",
                              !.steps = Append(@, "wait")]
    /\ lastOp' = Op("conflict", "none", NoRec, "waited")
    /\ UNCHANGED jobs
    /\ GuardFrame

\* updater.bot.delete_webhook(drop_pending_updates=True) in its own try: a
\* failure is logged and the handler goes on
GuardClear(ok) ==
    /\ guard.pc = "clear"
    /\ guard' = [guard EXCEPT !.pc = "sleep2",
                              !.steps = Append(@, IF ok THEN "clear" ELSE "clear_failed")]
    /\ lastOp' = Op("conflict", "none", NoRec, "cleared")
    /\ UNCHANGED jobs
    /\ GuardFrame

\* variant: a restart that raises is tried again after the wait
GuardRestart_retry(ok) ==
    /\ guard.pc = "restart"
    /\ guard' = [guard EXCEPT !.pc = IF ok THEN "idle" ELSE "sleep2",
                              !.polling = ok,
                              !.steps = Append(@, IF ok THEN "restart" ELSE "restart_failed"),
                              !.result = IF ok THEN "restarted" ELSE "failed"]
    /\ lastOp' = Op("conflict", "none", NoRec, IF ok THEN "restarted" ELSE "failed")
    /\ UNCHANGED jobs
    /\ GuardFrame

\* updater.start_polling(drop_pending_updates=True, timeout=15, read_latency=10):
\* starts the job queue, the dispatcher and the polling thread, or raises;
\* then error_handler returns
GuardRestart(ok) ==
    /\ guard.pc = "restart"
    /\ guard' = [guard EXCEPT !.pc = "idle",
                              !.polling = ok,
                              !.steps = Append(@, IF ok THEN "restart" ELSE "restart_failed"),
                              !.result = IF ok THEN "restarted" ELSE "failed"]
    /\ lastOp' = Op("conflict", "none", NoRec, IF ok THEN "restarted" ELSE "failed")
    /\ UNCHANGED jobs
    /\ GuardFrame

\* a deployment with stored records whose jobs fire while Conflicts arrive
ConflictNext ==
    \/ \E t \in {j.next : j \in DOMAIN jobs} : Advance(t)
    \/ \E j \in DOMAIN jobs : FireStart(j, "loaded", 0)
    \/ \E k \in 1..MaxRunning : SendStep(k, "ok")
    \/ \E k \in 1..MaxRunning : FinishReminder(k, 0)
    \/ \E k \in 1..MaxRunning : FinishPoll(k, FALSE, FALSE, FALSE)
    \/ ConflictSignal
    \/ \E ok \in BOOLEAN : GuardStop(ok)
    \/ GuardSleep
    \/ \E ok \in BOOLEAN : GuardClear(ok)
    \/ \E ok \in BOOLEAN : GuardRestart(ok)

ConflictSpec == StoreInit /\ [][ConflictNext]_vars

\* s is a prefix of t
IsPrefix(s, t) == Len(s) <= Len(t) /\ \A i \in 1..Len(s) : s[i] = t[i]

MaxQuestionLen == 300
MinOptions == 2
MaxOptions == 12
MaxOptionLen == 100
\* most lines a message with options carries
MaxLines == 13

\* a piece of text: the white space around it and the number of characters
\* str.strip() keeps
Text(pad, len) == [pad |-> pad, len |-> len]
\* str.strip()
strip(t) == Text(0, t.len)
\* len(str)
StrLen(t) == 2 * t.pad + t.len

\* messages a user may send as the question
QuestionTexts == {Text(p, n) : p \in 0..1, n \in {1, MaxQuestionLen, MaxQuestionLen + 1}}
\* lines a message with options may carry: blank, white space only, short,
\* at the limit, over the limit
LineKinds ==
    {Text(0, 0), Text(1, 0), Text(0, 1), Text(1, MaxOptionLen), Text(0, MaxOptionLen + 1)}
\* messages a user may send as the options: n lines alike but one
OptionTexts ==
    {[i \in 1..n |-> IF i = p THEN x ELSE y] :
        n \in 1..MaxLines, p \in 0..MaxLines, x \in LineKinds, y \in {Text(0, 1)}}

\* [opt.strip() for opt in options_text.split('\n') if opt.strip()]
ParseOptions(lines) ==
    LET stripped == [i \in 1..Len(lines) |-> strip(lines[i])]
    IN  SelectSeq(stripped, LAMBDA o : StrLen(o) > 0)

\* the question handlers' check
QuestionOk(question) == ~(StrLen(question) > MaxQuestionLen)

\* a check of the options that lets one option more through
OptionsOk_thirteen(options) ==
    /\ ~(Len(options) < MinOptions)
    /\ ~(Len(options) > MaxOptions + 1)
    /\ \A i \in 1..Len(options) : ~(StrLen(options[i]) > MaxOptionLen)

\* the options handlers' three checks
OptionsOk(options) ==
    /\ ~(Len(options) < MinOptions)
    /\ ~(Len(options) > MaxOptions)
    /\ \A i \in 1..Len(options) : ~(StrLen(options[i]) > MaxOptionLen)

\* conversation states of the three flows
QuestionState(type) ==
    CASE type = "once" -> "POLL_QUESTION"
      [] type = "daily" -> "DAILY_POLL_QUESTION"
      [] type = "weekly" -> "WEEKLY_POLL_QUESTION"
OptionsState(type) ==
    CASE type = "once" -> "POLL_OPTIONS"
      [] type = "daily" -> "DAILY_POLL_OPTIONS"
      [] type = "weekly" -> "WEEKLY_POLL_OPTIONS"

ConvFrame ==
    UNCHANGED <<now, reminders, chats, firings, sheetsInit, shReminders, shChats,
                blockedEver, guard>>

\* the trigger step of a flow accepted its input: the conversation waits for
\* the question
PollTriggerStep(type, proto) ==
    /\ creating = <<>>
    /\ created < MaxRecords
    /\ proto.type = type
    /\ creating' = <<[state |-> QuestionState(type), proto |-> proto,
                      question |-> Text(0, 0)]>>
    /\ lastOp' = Op("convo", "trigger", proto, "accepted")
    /\ UNCHANGED <<polls, jobs, shPolls, fired, created>>
    /\ ConvFrame

receive_poll_datetime(proto) == PollTriggerStep("once", proto)
receive_daily_poll_time(proto) == PollTriggerStep("daily", proto)
receive_weekly_poll_time(proto) == PollTriggerStep("weekly", proto)

\* a question handler: an over-long question keeps the state, another one is
\* remembered and the conversation waits for the options
PollQuestionStep(type, text) ==
    LET question == strip(text)
    IN  /\ creating # <<>>
        /\ creating[1].state = QuestionState(type)
        /\ IF ~QuestionOk(question)
           THEN /\ lastOp' = Op("convo", "question", text, "rejected")
                /\ UNCHANGED creating
           ELSE /\ creating' = <<[creating[1] EXCEPT !.state = OptionsState(type),
                                                     !.question = question]>>
                /\ lastOp' = Op("convo", "question", text, "accepted")
        /\ UNCHANGED <<polls, jobs, shPolls, fired, created>>
        /\ ConvFrame

receive_poll_question(text) == PollQuestionStep("once", text)
receive_daily_poll_question(text) == PollQuestionStep("daily", text)
receive_weekly_poll_question(text) == PollQuestionStep("weekly", text)

\* an options handler: a list failing a check keeps the state; another one is
\* stored with the remembered question, scheduled and mirrored
PollOptionsStep(type, lines, okMax, ok) ==
    LET options == ParseOptions(lines)
        new_id == get_next_poll_id(polls, IF okMax THEN ShMaxId(shPolls) ELSE 0)
        new_poll == [FlowPoll(creating[1].proto) EXCEPT !.id = new_id]
                    @@ [question |-> creating[1].question, options |-> options]
    IN  /\ creating # <<>>
        /\ creating[1].state = OptionsState(type)
        /\ (ok \/ okMax) => sheetsInit
        /\ IF ~OptionsOk(options)
           THEN /\ ~ok /\ ~okMax
                /\ lastOp' = Op("convo", "options", lines, "rejected")
                /\ UNCHANGED <<polls, jobs, shPolls, fired, created, creating>>
           ELSE /\ polls' = Append(polls, new_poll)
                /\ jobs' = schedule_poll(jobs, new_poll, now)
                /\ shPolls' = IF ok THEN ShCreate(shPolls, new_poll) ELSE shPolls
                /\ fired' = [fired EXCEPT !["poll"][new_id] = Tracked(new_poll, now)]
                /\ created' = created + 1
                /\ creating' = <<>>
                /\ lastOp' = Op("convo", "options", lines, "accepted")
        /\ ConvFrame

receive_poll_options(lines, okMax, ok) == PollOptionsStep("once", lines, okMax, ok)
receive_daily_poll_options(lines, okMax, ok) == PollOptionsStep("daily", lines, okMax, ok)
receive_weekly_poll_options(lines, okMax, ok) == PollOptionsStep("weekly", lines, okMax, ok)

\* /cancel inside a poll conversation
cancel_poll ==
    /\ creating # <<>>
    /\ creating' = <<>>
    /\ lastOp' = Op("convo", "cancel", NoRec, "none")
    /\ UNCHANGED <<polls, jobs, shPolls, fired, created>>
    /\ ConvFrame

PollConvNext ==
    \/ \E proto \in NewRecords(0) : receive_poll_datetime(proto)
    \/ \E proto \in NewRecords(0) : receive_daily_poll_time(proto)
    \/ \E proto \in NewRecords(0) : receive_weekly_poll_time(proto)
    \/ \E text \in QuestionTexts : receive_poll_question(text)
    \/ \E text \in QuestionTexts : receive_daily_poll_question(text)
    \/ \E text \in QuestionTexts : receive_weekly_poll_question(text)
    \/ \E lines \in OptionTexts, okMax, ok \in BOOLEAN :
           receive_poll_options(lines, okMax, ok)
    \/ \E lines \in OptionTexts, okMax, ok \in BOOLEAN :
           receive_daily_poll_options(lines, okMax, ok)
    \/ \E lines \in OptionTexts, okMax, ok \in BOOLEAN :
           receive_weekly_poll_options(lines, okMax, ok)
    \/ cancel_poll

PollConvSpec == ReconInit /\ [][PollConvNext]_vars

\* number of lines of a message that are not blank
NonBlank(lines) == Cardinality({i \in 1..Len(lines) : lines[i].len > 0})

\* the message of a conversation step is within the bounds of its step
InputWithinBounds(o) ==
    CASE o.pfx = "question" -> o.rec.len <= MaxQuestionLen
      [] o.pfx = "options" ->
            /\ NonBlank(o.rec) >= MinOptions
            /\ NonBlank(o.rec) <= MaxOptions
            /\ \A i \in 1..Len(o.rec) : o.rec[i].len <= MaxOptionLen
      [] OTHER -> TRUE

\* C26: every poll record a creation flow (once, daily, weekly) leaves in the
\* local store has 2 to 12 options of at most 100 characters each and a
\* question of at most 300 characters; a message violating a bound stores
\* nothing and keeps the conversation in the state it was in.
C26_StoredPollsWithinBounds ==
    [][lastOp'.op = "convo" =>
          /\ \A p \in Range(polls') :
                /\ Len(p.options) >= MinOptions
                /\ Len(p.options) <= MaxOptions
                /\ \A i \in 1..Len(p.options) : p.options[i].len <= MaxOptionLen
                /\ p.question.len <= MaxQuestionLen
          /\ ~InputWithinBounds(lastOp')
                => /\ polls' = polls
                   /\ creating' = creating
                   /\ shPolls' = shPolls
                   /\ jobs' = jobs]_vars

\* a daily poll with twelve options, one of them a hundred characters long,
\* under a question three hundred characters long has been stored
C26_Witness ==
    /\ lastOp.op = "convo" /\ lastOp.pfx = "options" /\ lastOp.res = "accepted"
    /\ Len(polls) = 1
    /\ polls[1].type = "daily"
    /\ Len(polls[1].options) = MaxOptions
    /\ \E i \in 1..MaxOptions : polls[1].options[i].len = MaxOptionLen
    /\ polls[1].question.len = MaxQuestionLen

(* ---------------------------------------------------------------------- *)
(* The fan-out, send by send                                              *)
(* ---------------------------------------------------------------------- *)
\* a message is the sequence of its parts
Msg(prefix, text) == <<prefix, text>>
\* what the messaging platform answers to a send that fails
Blocked == Msg("Forbidden:", "bot was blocked by the user")
ChatNotFound == Msg("Bad Request:", "chat not found")
CantParse == Msg("Bad Request:", "can't parse entities")
ApiErrors == {Blocked, ChatNotFound, CantParse}
SendResults == {<<"ok">>} \cup ApiErrors
\* the answers that mean the recipient is permanently unreachable
PermanentErrors ==
    {Blocked, Msg("Forbidden:", "user is deactivated"),
     Msg("Forbidden:", "the group chat was deleted"), ChatNotFound}

\* str.capitalize() of the texts above
Capitalize(text) ==
    CASE text = "chat not found" -> "Chat not found"
      [] text = "can't parse entities" -> "Can't parse entities"
      [] OTHER -> text

\* str(e): the exception's message is the platform's answer without a
\* leading "Bad Request: ", capitalized when something was taken off
ErrorStr(answer) ==
    IF answer[1] = "Bad Request:" THEN <<Capitalize(answer[2])>> ELSE answer

\* pattern in s
Contains(s, pattern) ==
    \E i \in 0..(Len(s) - Len(pattern)) :
        \A j \in 1..Len(pattern) : s[i + j] = pattern[j]

\* the test of the error text that puts a chat on the removal list
IsBlockedError(error_str) ==
    \/ Contains(error_str, Msg("Forbidden:", "bot was blocked by the user"))
    \/ Contains(error_str, Msg("Forbidden:", "user is deactivated"))
    \/ Contains(error_str, Msg("Forbidden:", "the group chat was deleted"))
    \/ Contains(error_str, Msg("Bad Request:", "chat not found"))

\* the sends of one iteration of send_reminder's loop, given the answers to
\* the formatted send and to the plain-text send
ReminderAttempts(i, first, second) ==
    IF first = <<"ok">> \/ IsBlockedError(ErrorStr(first))
    THEN <<[i |-> i, mode |-> "html", res |-> first]>>
    ELSE <<[i |-> i, mode |-> "html", res |-> first],
           [i |-> i, mode |-> "plain", res |-> second]>>

\* how that iteration ends
ReminderOutcome(first, second) ==
    CASE first = <<"ok">> -> "ok"
      [] first # <<"ok">> /\ IsBlockedError(ErrorStr(first)) -> "perm"
      [] OTHER -> CASE second = <<"ok">> -> "fallback_ok"
                    [] second # <<"ok">> /\ IsBlockedError(ErrorStr(second)) -> "fallback_perm"
                    [] OTHER -> "fallback_fail"

\* the one send of an iteration of send_poll's loop, and how it ends
PollAttempts(i, first) == <<[i |-> i, mode |-> "poll", res |-> first]>>
PollOutcome(first) ==
    CASE first = <<"ok">> -> "ok"
      [] first # <<"ok">> /\ IsBlockedError(ErrorStr(first)) -> "perm"
      [] OTHER -> "fail"

\* a payload read again from the stored entry of the record at send time
Payload_reread(f) ==
    LET stored == SelectSeq(StoreOf(f.pfx), LAMBDA r : r.id = f.ctx.id)
    IN  IF stored # <<>> THEN stored[1].text ELSE f.ctx.text

\* what a callback sends: the text (the question and the options) of the
\* record it got as its job's context
Payload(f) == f.ctx.text

\* the sends a running callback has made so far
LogOf(f) == IF "log" \in DOMAIN f THEN f.log ELSE <<>>

\* variant: a permanently unreachable subscriber goes to the removal list
\* without being counted as failed
SendAttempts_uncounted(k, first, second) ==
    /\ k \in 1..Len(firings)
    /\ LET f == firings[k]
           cid == f.chats[f.idx]
           outcome == IF f.pfx = "reminder" THEN ReminderOutcome(first, second)
                      ELSE PollOutcome(first)
           sends == IF f.pfx = "reminder" THEN ReminderAttempts(f.idx, first, second)
                    ELSE PollAttempts(f.idx, first)
       IN  /\ f.idx <= Len(f.chats)
           /\ Len(sends) = 1 => second = <<"ok">>
           /\ firings' = [firings EXCEPT ![k] =
                 [log |-> LogOf(f) \o [n \in 1..Len(sends) |->
                                         sends[n] @@ [text |-> Payload(f)]],
                  job |-> f.job, pfx |-> f.pfx, ctx |-> f.ctx, chats |-> f.chats,
                  idx |-> f.idx + 1,
                  total_sent |-> IF outcome \in {"ok", "fallback_ok"}
                                 THEN f.total_sent + 1 ELSE f.total_sent,
                  total_failed |-> IF outcome \in {"ok", "fallback_ok", "perm"}
                                   THEN f.total_failed ELSE f.total_failed + 1,
                  blocked |-> IF outcome \in {"perm", "fallback_perm"}
                              THEN Append(f.blocked, cid) ELSE f.blocked]]
           /\ lastOp' = Env
    /\ UNCHANGED <<now, reminders, polls, chats, jobs, sheetsInit, shReminders, shPolls,
                   shChats, blockedEver, fired, created, creating, guard>>

\* an iteration that leaves the loop when the recipient is unreachable
SendAttempts_break(k, first, second) ==
    /\ k \in 1..Len(firings)
    /\ LET f == firings[k]
           cid == f.chats[f.idx]
           outcome == IF f.pfx = "reminder" THEN ReminderOutcome(first, second)
                      ELSE PollOutcome(first)
           sends == IF f.pfx = "reminder" THEN ReminderAttempts(f.idx, first, second)
                    ELSE PollAttempts(f.idx, first)
       IN  /\ f.idx <= Len(f.chats)
           /\ Len(sends) = 1 => second = <<"ok">>
           /\ firings' = [firings EXCEPT ![k] =
                 [log |-> LogOf(f) \o [n \in 1..Len(sends) |->
                                         sends[n] @@ [text |-> Payload(f)]],
                  job |-> f.job, pfx |-> f.pfx, ctx |-> f.ctx, chats |-> f.chats,
                  idx |-> IF outcome = "perm" THEN Len(f.chats) + 1 ELSE f.idx + 1,
                  total_sent |-> IF outcome \in {"ok", "fallback_ok"}
                                 THEN f.total_sent + 1 ELSE f.total_sent,
                  total_failed |-> IF outcome \in {"ok", "fallback_ok"}
                                   THEN f.total_failed ELSE f.total_failed + 1,
                  blocked |-> IF outcome \in {"perm", "fallback_perm"}
                              THEN Append(f.blocked, cid) ELSE f.blocked]]
           /\ lastOp' = Env
    /\ UNCHANGED <<now, reminders, polls, chats, jobs, sheetsInit, shReminders, shPolls,
                   shChats, blockedEver, fired, created, creating, guard>>

\* one iteration of `for cid in chats[:]` of the running callback number k,
\* with the sends it makes
SendAttempts(k, first, second) ==
    /\ k \in 1..Len(firings)
    /\ LET f == firings[k]
           cid == f.chats[f.idx]
           outcome == IF f.pfx = "reminder" THEN ReminderOutcome(first, second)
                      ELSE PollOutcome(first)
           sends == IF f.pfx = "reminder" THEN ReminderAttempts(f.idx, first, second)
                    ELSE PollAttempts(f.idx, first)
       IN  /\ f.idx <= Len(f.chats)
           /\ Len(sends) = 1 => second = <<"ok">>
           /\ firings' = [firings EXCEPT ![k] =
                 [log |-> LogOf(f) \o [n \in 1..Len(sends) |->
                                         sends[n] @@ [text |-> Payload(f)]],
                  job |-> f.job, pfx |-> f.pfx, ctx |-> f.ctx, chats |-> f.chats,
                  idx |-> f.idx + 1,
                  total_sent |-> IF outcome \in {"ok", "fallback_ok"}
                                 THEN f.total_sent + 1 ELSE f.total_sent,
                  total_failed |-> IF outcome \in {"ok", "fallback_ok"}
                                   THEN f.total_failed ELSE f.total_failed + 1,
                  blocked |-> IF outcome \in {"perm", "fallback_perm"}
                              THEN Append(f.blocked, cid) ELSE f.blocked]]
           /\ lastOp' = Env
    /\ UNCHANGED <<now, reminders, polls, chats, jobs, sheetsInit, shReminders, shPolls,
                   shChats, blockedEver, fired, created, creating, guard>>

FanoutNext ==
    \/ \E t \in {j.next : j \in DOMAIN jobs} : Advance(t)
    \/ \E j \in DOMAIN jobs : FireStart(j, "loaded", 0)
    \/ \E k \in 1..MaxRunning, first \in SendResults, second \in SendResults :
           SendAttempts(k, first, second)
    \/ \E k \in 1..MaxRunning : FinishReminder(k, 0)
    \/ \E k \in 1..MaxRunning : FinishPoll(k, FALSE, FALSE, FALSE)

FanoutSpec == DeliveryInit /\ [][FanoutNext]_vars

\* the sends of a callback to the i-th subscriber of its list
SendsTo(f, i) == SelectSeq(LogOf(f), LAMBDA a : a.i = i)

\* C27: in a reminder firing a subscriber whose first send fails with a
\* permanently-unreachable error (bot blocked, account deactivated, chat
\* deleted, chat not found) gets no second send; one whose first send fails
\* with another error gets exactly one plain-text send more; nobody gets more
\* than two sends.
C27_AttemptsPerSubscriber ==
    \A k \in 1..Len(firings) :
        LET f == firings[k]
        IN  f.pfx = "reminder" =>
                \A i \in 1..(f.idx - 1) :
                    LET s == SendsTo(f, i)
                    IN  /\ Len(s) \in 1..2
                        /\ s[1].mode = "html"
                        /\ s[1].res \in PermanentErrors => Len(s) = 1
                        /\ s[1].res \in ApiErrors \ PermanentErrors
                              => Len(s) = 2 /\ s[2].mode = "plain"

\* the first sends of a callback, in the order it made them
FirstSends(f) == SelectSeq(LogOf(f), LAMBDA a : a.mode # "plain")

\* the callback has sent to the subscribers before position idx of its list,
\* one after the other in the order of the list
ServedInOrder(f) ==
    /\ Len(FirstSends(f)) = f.idx - 1
    /\ \A n \in 1..Len(FirstSends(f)) : FirstSends(f)[n].i = n

\* C28: a firing that loads a non-empty subscriber list sends at least once
\* to every subscriber of that list, in the order of the list, whatever the
\* sends to the others gave: the list is the one stored when the firing
\* starts, the sends follow it position by position, and the firing ends
\* only after the last position.
C28_EverySubscriberAttempted ==
    [][/\ \A k \in 1..Len(firings') : ServedInOrder(firings'[k])
       /\ (lastOp'.op = "fire" /\ lastOp'.res = "fanout")
             => /\ firings'[Len(firings')].chats = chats
                /\ chats # <<>>
       /\ (lastOp'.op = "fire" /\ lastOp'.res = "done")
             => \E k \in 1..Len(firings) :
                    /\ firings' = RemoveAt(firings, k)
                    /\ Len(FirstSends(firings[k])) = Len(firings[k].chats)]_vars

\* a firing has gone through its list [c1, c2]: c1 had blocked the bot, the
\* send to c2 failed for another reason
C28_Witness ==
    \E k \in 1..Len(firings) :
        /\ firings[k].chats = <<"c1", "c2">>
        /\ firings[k].idx = 3
        /\ SendsTo(firings[k], 1)[1].res = Blocked
        /\ SendsTo(firings[k], 2)[1].res = CantParse

(* ---------------------------------------------------------------------- *)
(* Firings that find no subscriber                                        *)
(* ---------------------------------------------------------------------- *)
\* a deployment with one stored record and at most one subscriber, who may
\* be missing from the backup store
NoChatsInit ==
    /\ now = 0
    /\ reminders \in StoresUpTo(MaxStored)
    /\ polls \in StoresUpTo(MaxStored)
    /\ Len(reminders) + Len(polls) \in 1..MaxStored
    /\ jobs = StartupJobs(reminders, polls, now)
    /\ chats \in {<<>>, <<"c1">>}
    /\ firings = <<>>
    /\ sheetsInit \in BOOLEAN
    /\ shReminders = (IF sheetsInit THEN reminders ELSE <<>>)
    /\ shPolls = (IF sheetsInit THEN polls ELSE <<>>)
    /\ shChats \in (IF sheetsInit THEN {chats, <<>>} ELSE {<<>>})
    /\ blockedEver = {}
    /\ fired = StoredFired(reminders, polls, now)
    /\ created = Len(reminders) + Len(polls)
    /\ creating = <<>>
    /\ guard = GuardIdle
    /\ lastOp = Op("init", "none", NoRec, "none")

NoChatsNext ==
    \/ \E t \in {j.next : j \in DOMAIN jobs} : Advance(t)
    \/ \E c \in Chats, ok \in BOOLEAN : unsubscribe_user(c, ok)
    \/ \E j \in DOMAIN jobs, how \in {"skipped", "loaded", "restored", "failed"}, n \in 0..2 :
           FireStart(j, how, n)
    \/ \E k \in 1..MaxRunning, o \in {"ok", "perm"} : SendStep(k, o)
    \/ \E k \in 1..MaxRunning, n \in 0..2 : FinishReminder(k, n)
    \/ \E k \in 1..MaxRunning, okC \in BOOLEAN, okU \in BOOLEAN, okD \in BOOLEAN :
           FinishPoll(k, okC, okU, okD)

NoChatsSpec == NoChatsInit /\ [][NoChatsNext]_vars

\* the names of the live jobs, with their multiplicities
JobNameBag(js) ==
    LET names == {j.name : j \in DOMAIN js}
    IN  [n \in names |-> BagCardinality([j \in {x \in DOMAIN js : x.name = n} |-> js[j]])]

\* C29: a firing of a daily or weekly record that finds no subscriber (the
\* stored list is empty and the backup store gives none) sends nothing and
\* leaves both record collections and the live jobs as they were: the
\* record's job stays in the queue, due at its next period.
C29_EmptyFiringKeepsRecurring ==
    [][(/\ lastOp'.op = "fire"
        /\ lastOp'.res \in {"no_recipients", "restore_failed"}
        /\ ~IsOnce(lastOp'.rec))
       => /\ reminders' = reminders
          /\ polls' = polls
          /\ shReminders' = shReminders
          /\ shPolls' = shPolls
          /\ firings' = firings
          /\ JobNameBag(jobs') = JobNameBag(jobs)
          /\ \E j \in DOMAIN jobs' :
                /\ j.name.pfx = lastOp'.pfx
                /\ j.name.id = lastOp'.rec.id
                /\ j.ctx = lastOp'.rec
                /\ j.next > now]_vars

\* a daily record has fired a second time, a day after a firing that found
\* no subscriber, and found none again
C29_Witness ==
    /\ lastOp.op = "fire"
    /\ lastOp.res \in {"no_recipients", "restore_failed"}
    /\ lastOp.rec.type = "daily"
    /\ fired[lastOp.pfx][lastOp.rec.id].n = 2
    /\ blockedEver = {}
    /\ firings = <<>>

(* ---------------------------------------------------------------------- *)
(* Scheduling a collection that holds a malformed record                  *)
(* ---------------------------------------------------------------------- *)
\* most records in the two collections together
MaxBatch == 3

\* the trigger fields read from one piece of text
TriggerParts(type) ==
    CASE type = "once" -> {{"dt"}}
      [] type = "daily" -> {{"h", "m"}}
      [] type = "weekly" -> {{"day"}, {"h", "m"}}
      [] OTHER -> {}

\* the record without the fields F
Drop(rec, F) == [f \in DOMAIN rec \ F |-> rec[f]]
\* the record whose text for the fields F does not parse
Unparsable(rec, F) == Drop(rec, F) @@ [raw |-> "??"]

\* the malformed records a good record can decay to
BadVersions(rec) ==
    {Drop(rec, {"type"})}
    \cup {Drop(rec, F) : F \in TriggerParts(rec.type)}
    \cup {Unparsable(rec, F) : F \in TriggerParts(rec.type)}

\* lists of n records with ids first, first + 1, ..: good ones, and at most
\* one malformed if bad
RECURSIVE Batches(_, _, _)
Batches(first, n, bad) ==
    IF n = 0 THEN {<<>>}
    ELSE {<<r>> \o rest : r \in NewRecords(first), rest \in Batches(first + 1, n - 1, bad)}
         \cup (IF bad
               THEN {<<b>> \o rest : b \in UNION {BadVersions(r) : r \in NewRecords(first)},
                                     rest \in Batches(first + 1, n - 1, FALSE)}
               ELSE {})

BatchInit ==
    /\ now \in {0} \cup Instants
    /\ reminders \in UNION {Batches(1, k, TRUE) : k \in 0..MaxBatch}
    /\ polls \in UNION {Batches(1, k, TRUE) : k \in 0..MaxBatch}
    /\ Len(reminders) + Len(polls) \in 1..MaxBatch
    /\ jobs = EmptyBag
    /\ chats = <<>>
    /\ firings = <<>>
    /\ sheetsInit = FALSE
    /\ shReminders = <<>>
    /\ shPolls = <<>>
    /\ shChats = <<>>
    /\ blockedEver = {}
    /\ fired = NoFired
    /\ created = Len(reminders) + Len(polls)
    /\ creating = <<>>
    /\ guard = GuardIdle
    /\ lastOp = Op("init", "none", NoRec, "none")

BatchNext ==
    \/ \E t \in Instants : Advance(t)
    \/ ScheduleAllReminders
    \/ ScheduleAllPolls

BatchSpec == BatchInit /\ [][BatchNext]_vars

\* schedule_all_reminders / schedule_all_polls
ScheduleAll(pfx, js, rs, t) ==
    IF pfx = "reminder" THEN schedule_all_reminders(js, rs, t)
    ELSE schedule_all_polls(js, rs, t)

\* scheduling the record alone gives it a job
Schedulable(pfx, rec, t) ==
    /\ ~Malformed(rec)
    /\ pfx = "poll" => rec.status = "Active"
    /\ JobsOf(IF pfx = "reminder" THEN schedule_reminder(EmptyBag, rec, t)
              ELSE schedule_poll(EmptyBag, rec, t), pfx, rec.id) # {}

\* C30: after ScheduleAll on a collection with one malformed record (a
\* trigger that does not parse, an unknown weekday, a missing field) that
\* record has no job and every other schedulable record has a live job: the
\* queue is the one ScheduleAll gives for the collection without the record.
C30_MalformedRecordIsSkipped ==
    [][\A pfx \in {"reminder", "poll"} :
          (lastOp'.op = "schedule_all" /\ lastOp'.pfx = pfx)
          => \A i \in 1..Len(StoreOf(pfx)) :
                Malformed(StoreOf(pfx)[i])
                => /\ JobsOf(jobs', pfx, StoreOf(pfx)[i].id) = {}
                   /\ \A k \in 1..Len(StoreOf(pfx)) :
                         (k # i /\ Schedulable(pfx, StoreOf(pfx)[k], now))
                         => JobCount(jobs', pfx, StoreOf(pfx)[k].id) >= 1
                   /\ jobs' = ScheduleAll(pfx, jobs, RemoveAt(StoreOf(pfx), i), now)]_vars

\* the reminders were scheduled while the second of three had a time that
\* does not parse: the first and the third have their jobs, the second none
C30_Witness ==
    /\ lastOp.op = "schedule_all" /\ lastOp.pfx = "reminder"
    /\ Len(reminders) = 3
    /\ "raw" \in DOMAIN reminders[2]
    /\ ~Malformed(reminders[1]) /\ ~Malformed(reminders[3])
    /\ JobCount(jobs, "reminder", 1) = 1
    /\ JobCount(jobs, "reminder", 2) = 0
    /\ JobCount(jobs, "reminder", 3) = 1

(* ---------------------------------------------------------------------- *)
(* Records edited between scheduling and firing                           *)
(* ---------------------------------------------------------------------- *)
\* the rows of the backup store after an operator rewrote their texts
Edited(rows) == [i \in 1..Len(rows) |-> [rows[i] EXCEPT !.text = "Y"]]

\* a deployment whose jobs were registered from the stored records, and
\* whose backup rows may have been edited since
SnapshotInit ==
    /\ now = 0
    /\ reminders \in StoresUpTo(MaxStored)
    /\ polls \in StoresUpTo(MaxStored)
    /\ Len(reminders) + Len(polls) \in 1..MaxStored
    /\ jobs = StartupJobs(reminders, polls, now)
    /\ chats = <<"c1", "c2">>
    /\ firings = <<>>
    /\ sheetsInit = TRUE
    /\ shReminders \in {reminders, Edited(reminders)}
    /\ shPolls \in {polls, Edited(polls)}
    /\ shChats = chats
    /\ blockedEver = {}
    /\ fired = StoredFired(reminders, polls, now)
    /\ created = 0
    /\ creating = <<>>
    /\ guard = GuardIdle
    /\ lastOp = Op("init", "none", NoRec, "none")

SnapshotNext ==
    \/ \E t \in {j.next : j \in DOMAIN jobs} : Advance(t)
    \/ \E ok \in BOOLEAN : auto_sync_reminders(ok)
    \/ \E ok \in BOOLEAN : auto_sync_polls(ok)
    \/ \E j \in DOMAIN jobs : FireStart(j, "loaded", 0)
    \/ \E k \in 1..MaxRunning, first \in SendResults, second \in SendResults :
           SendAttempts(k, first, second)
    \/ \E k \in 1..MaxRunning : FinishReminder(k, 0)
    \/ \E k \in 1..MaxRunning : FinishPoll(k, FALSE, FALSE, FALSE)

SnapshotSpec == SnapshotInit /\ [][SnapshotNext]_vars

\* C31: what a firing sends is the payload of the record snapshot its job was
\* registered with: the callback starts from the context of a live job, every
\* send carries that context's text, and a step that changes the record's
\* stored entry without scheduling leaves the contexts of the jobs alone.
C31_FiringSendsTheSnapshot ==
    [][/\ \A k \in 1..Len(firings') :
             \A n \in 1..Len(LogOf(firings'[k])) :
                 LogOf(firings'[k])[n].text = firings'[k].ctx.text
       /\ (lastOp'.op = "fire" /\ lastOp'.res = "fanout")
             => \E j \in DOMAIN jobs :
                    /\ j.next <= now
                    /\ firings'[Len(firings')].ctx = j.ctx
       /\ (lastOp'.op = "auto_sync" /\ Len(reminders') = Len(reminders)
                                    /\ Len(polls') = Len(polls))
             => {j.ctx : j \in DOMAIN jobs'} = {j.ctx : j \in DOMAIN jobs}]_vars

\* a firing has sent the text its job was registered with after the stored
\* entry of its record got another text
C31_Witness ==
    \E k \in 1..Len(firings) :
        /\ LogOf(firings[k]) # <<>>
        /\ LogOf(firings[k])[1].text = "X"
        /\ \E r \in Range(StoreOf(firings[k].pfx)) :
               r.id = firings[k].ctx.id /\ r.text = "Y"

(* ---------------------------------------------------------------------- *)
(* Sequences of subscriptions and unsubscriptions                         *)
(* ---------------------------------------------------------------------- *)
\* most ids the stored list may hold while subscriptions are explored
MaxChats == 3

SubscribeNext ==
    \/ \E t \in {j.next : j \in DOMAIN jobs} : Advance(t)
    \/ \E c \in Chats, ok \in BOOLEAN : Len(chats) < MaxChats /\ subscribe_chat(c, ok)
    \/ \E c \in Chats, ok \in BOOLEAN : unsubscribe_user(c, ok)

SubscribeSpec == StoreInit /\ [][SubscribeNext]_vars

NoDuplicates(s) == \A i, j \in 1..Len(s) : s[i] = s[j] => i = j

\* C32: a call of subscribe_chat for an id already in the stored list leaves
\* the list as it was (a call that does not change which ids are subscribed
\* does not change the list), a new id goes to the end, and after any
\* sequence of subscribe_chat and unsubscribe_user calls no id is in the list
\* twice.
C32_SubscribeIsIdempotent ==
    [][/\ NoDuplicates(chats')
       /\ Range(chats') = Range(chats) => chats' = chats
       /\ Len(chats') > Len(chats)
             => /\ chats' = Append(chats, chats'[Len(chats')])
                /\ ~InSeq(chats'[Len(chats')], chats)]_vars

\* c1 unsubscribed, c2 subscribed, c1 subscribed again: each id is there once
C32_Witness ==
    /\ chats = <<"c2", "c1">>
    /\ shChats = <<"c1">>
    /\ lastOp = Env
    /\ now = 0

C34_DeleteRemovesCreatedPoll ==
    [][(/\ lastOp'.op = "delete" /\ lastOp'.pfx = "poll"
        /\ \E p \in Range(polls) : IsStrId(p) /\ p.id = lastOp'.rec.id)
       => /\ lastOp'.rec.id \notin Ids(polls')
          /\ JobsOf(jobs', "poll", lastOp'.rec.id) = {}]_vars

(* ---------------------------------------------------------------------- *)
(* Health monitor of the scheduler                                        *)
(* ---------------------------------------------------------------------- *)
\* the number of live jobs whose name starts with the prefix
PrefixCount(js, pfx) ==
    BagCardinality([j \in {x \in DOMAIN js : x.name.pfx = pfx} |-> js[j]])

\* check_active_jobs: returns the tuple (reminder jobs, poll jobs)
check_active_jobs(js) ==
    [type |-> "tuple", items |-> <<PrefixCount(js, "reminder"), PrefixCount(js, "poll")>>]

\* a value has .get(key, default) when it is a dict
IsDict(v) == v.type = "dict"

\* monitor_scheduler_health: every 600 s. It reads the counts with
\* active_jobs.get('poll_jobs', 0); on a value without .get the AttributeError
\* is caught by the handler's except and the tick ends there
monitor_scheduler_health(ok) ==
    LET active_jobs == check_active_jobs(jobs)
        raised == ~IsDict(active_jobs)
        poll_jobs == IF raised THEN 0 ELSE active_jobs.items.poll_jobs
        active_polls == ShActive(shPolls)
        restore == ~raised /\ poll_jobs = 0 /\ sheetsInit /\ ok /\ active_polls # <<>>
    IN  /\ ~Due
        /\ ok => sheetsInit
        /\ polls' = IF restore THEN active_polls ELSE polls
        /\ jobs' = IF restore THEN reschedule_all_polls(jobs, active_polls, now) ELSE jobs
        /\ lastOp' = Op("health", "poll", NoRec,
                        CASE raised -> "error" [] restore -> "restored" [] OTHER -> "none")
        /\ UNCHANGED <<now, reminders, chats, firings, sheetsInit, shReminders, shPolls,
                       shChats, blockedEver, fired, created, creating, guard>>

\* a deployment whose polls are created, fired, deleted and cleared, with the
\* health monitor ticking; the backup store answers whenever it is initialised
HealthNext ==
    \/ \E t \in {j.next : j \in DOMAIN jobs} : Advance(t)
    \/ \E proto \in ReconRecords, ok \in BOOLEAN : CreatePoll(proto, ok, ok)
    \/ \E j \in DOMAIN jobs : FireStart(j, "loaded", 0)
    \/ \E k \in 1..MaxRunning : SendStep(k, "ok")
    \/ \E k \in 1..MaxRunning : FinishReminder(k, 2)
    \/ \E k \in 1..MaxRunning : FinishPoll(k, FALSE, TRUE, IsOnce(firings[k].ctx))
    \/ \E id \in 1..(MaxStored + MaxRecords), ok \in BOOLEAN : confirm_delete_poll(id, ok)
    \/ \E ok \in BOOLEAN : clear_polls(IF ok THEN Ids(polls) ELSE {})
    \/ monitor_scheduler_health(sheetsInit)

HealthSpec == StoreInit /\ [][HealthNext]_vars

\* C35: when the health-monitor tick runs while no poll job is live and the
\* backup store holds active polls, the tick saves those polls to the local
\* store and reschedules them: after it every schedulable active poll of the
\* store has a live job.
C35_HealthTickRestoresPolls ==
    [][(/\ lastOp'.op = "health"
        /\ PrefixCount(jobs, "poll") = 0
        /\ sheetsInit
        /\ ShActive(shPolls) # <<>>)
       => /\ polls' = ShActive(shPolls)
          /\ \A p \in Range(polls') :
                 Schedulable("poll", p, now) => JobsOf(jobs', "poll", p.id) # {}]_vars

(* ---------------------------------------------------------------------- *)
(* The delete conversation: /del_reminder                                 *)
(* ---------------------------------------------------------------------- *)
\* start_delete_reminder: an empty store ends the conversation; otherwise the
\* id-sorted list is shown with the numbers 1..len and the conversation waits
\* for a number (REM_DEL_ID)
start_delete_reminder ==
    /\ ~Due
    /\ creating = <<>>
    /\ creating' = IF reminders = <<>> THEN <<>>
                   ELSE <<[pfx |-> "del", shown |-> SortById(reminders)]>>
    /\ lastOp' = Op("display", "reminder", NoRec, IF reminders = <<>> THEN "empty" ELSE "shown")
    /\ UNCHANGED <<now, reminders, polls, chats, jobs, firings, sheetsInit, shReminders,
                   shPolls, shChats, blockedEver, fired, created, guard>>

\* the number sent in state REM_DEL_ID: a deletion ends the conversation
DeleteConfirm(reminder_number, ok) ==
    /\ creating # <<>>
    /\ creating[1].pfx = "del"
    /\ DeleteReminderStep(reminder_number, ok, <<>>)

\* one delete conversation at a time, while reminders fire and are created
DeleteConvNext ==
    \/ \E t \in {j.next : j \in DOMAIN jobs} : Advance(t)
    \/ \E proto \in ReconRecords, ok \in BOOLEAN : CreateReminder(proto, ok)
    \/ \E j \in {x \in DOMAIN jobs : x.name.pfx = "reminder"} : FireStart(j, "loaded", 0)
    \/ \E k \in 1..MaxRunning : SendStep(k, "ok")
    \/ \E k \in 1..MaxRunning : FinishReminder(k, 0)
    \/ start_delete_reminder
    \/ \E n \in 1..(MaxStored + MaxRecords), ok \in BOOLEAN : DeleteConfirm(n, ok)

DeleteConvSpec == StoreInit /\ [][DeleteConvNext]_vars

\* C36: the reminder removed by confirm_delete_reminder for number n is the
\* reminder that start_delete_reminder displayed at number n, whatever
\* firings of once reminders or creations happened between the display and
\* the confirmation.
C36_DeletesTheDisplayedReminder ==
    [][(/\ lastOp'.op = "delete" /\ lastOp'.pfx = "reminder"
        /\ lastOp'.res \in {"mirrored", "local"}
        /\ creating # <<>>)
       => \A n \in 1..Len(creating[1].shown) :
              (n <= Len(reminders) /\ SortById(reminders)[n] = lastOp'.rec)
              => creating[1].shown[n].id = lastOp'.rec.id]_vars
\* C37: at the end of every fan-out total_sent + total_failed is the number of
\* subscribers loaded at the start of the firing, each subscriber counted
\* once (after every iteration the two counters add up to the number of
\* subscribers served), and the removal list is no longer than total_failed.
C37_CountersAddUp ==
    \A k \in 1..Len(firings) :
        LET f == firings[k]
        IN  /\ f.total_sent + f.total_failed = f.idx - 1
            /\ f.idx > Len(f.chats) => f.total_sent + f.total_failed = Len(f.chats)
            /\ Len(f.blocked) <= f.total_failed

\* a fan-out over [c1, c2] at its end: c1 had blocked the bot, c2 was served
C37_Witness ==
    \E k \in 1..Len(firings) :
        LET f == firings[k]
        IN  /\ f.chats = <<"c1", "c2">>
            /\ f.idx > Len(f.chats)
            /\ f.blocked = <<"c1">>
            /\ f.total_sent = 1
            /\ f.total_failed = 1
\* C38: a firing for the record R changes at most the entry of R in R's own
\* collection: on every step of a firing every other reminder and poll entry
\* of the local store is the same before and after, in the same order.
C38_FiringChangesOnlyItsRecord ==
    [][/\ lastOp'.op = "fire"
          => /\ WithoutId(IF lastOp'.pfx = "reminder" THEN reminders' ELSE polls',
                          lastOp'.rec.id)
                   = WithoutId(IF lastOp'.pfx = "reminder" THEN reminders ELSE polls,
                               lastOp'.rec.id)
             /\ lastOp'.pfx = "reminder" => polls' = polls
             /\ lastOp'.pfx = "poll" => reminders' = reminders
       /\ (lastOp'.op # "fire" /\ firings' # firings)
          => reminders' = reminders /\ polls' = polls]_vars

\* a once reminder has fired and is gone from the store, the other reminder
\* is still there
C38_Witness ==
    /\ lastOp.op = "fire" /\ lastOp.res = "done" /\ lastOp.pfx = "reminder"
    /\ IsOnce(lastOp.rec)
    /\ reminders # <<>>
    /\ lastOp.rec.id \notin Ids(reminders)

(* ---------------------------------------------------------------------- *)
(* Startup: the loop of main that starts the inbound consumer             *)
(* ---------------------------------------------------------------------- *)
max_start_attempts == 3

\* what updater.start_polling can give: it returns, raises Conflict, or
\* raises another exception
StartResults == {"ok", "conflict", "error"}

\* main before the first pass of `for start_attempt in range(max_start_attempts)`:
\* the records are scheduled, the consumer is not polling
PollingStartInit ==
    /\ now = 0
    /\ reminders \in StoresUpTo(MaxStored)
    /\ polls \in StoresUpTo(MaxStored)
    /\ Len(reminders) + Len(polls) \in 1..MaxStored
    /\ jobs = StartupJobs(reminders, polls, now)
    /\ chats = <<"c1">>
    /\ firings = <<>>
    /\ sheetsInit \in BOOLEAN
    /\ shReminders = (IF sheetsInit THEN reminders ELSE <<>>)
    /\ shPolls = (IF sheetsInit THEN polls ELSE <<>>)
    /\ shChats = (IF sheetsInit THEN chats ELSE <<>>)
    /\ blockedEver = {}
    /\ fired = StoredFired(reminders, polls, now)
    /\ created = 0
    /\ creating = <<>>
    /\ guard = [pc |-> "start", polling |-> FALSE, steps |-> <<>>, result |-> "none"]
    /\ lastOp = Op("init", "none", NoRec, "none")

\* variant: a failed attempt always waits and goes on
Retry_always(start_attempt) == TRUE

\* `if start_attempt < max_start_attempts - 1`: sleep and go to the next pass;
\* otherwise the exception is raised again
Retry(start_attempt) == start_attempt < max_start_attempts - 1

\* one pass of the loop: start_polling returns (break), or it raises and the
\* pass sleeps (15, 30 s after a Conflict, 5 s otherwise) or raises again; the
\* exception raised again is caught by main's outer except, and main returns
StartAttempt(res) ==
    LET start_attempt == Len(guard.steps)
    IN  /\ guard.pc = "start"
        /\ start_attempt < max_start_attempts
        /\ guard' = [pc |-> CASE res = "ok" -> "final_check"
                              [] Retry(start_attempt) -> "sleep"
                              [] OTHER -> "returned",
                     polling |-> res = "ok",
                     steps |-> Append(guard.steps, res),
                     result |-> CASE res = "ok" -> "started"
                                  [] Retry(start_attempt) -> "none"
                                  [] OTHER -> "failed"]
        /\ lastOp' = Op("start", "none", NoRec, res)
        /\ UNCHANGED <<now, reminders, polls, chats, jobs, firings, sheetsInit, shReminders,
                       shPolls, shChats, blockedEver, fired, created, creating>>

\* time.sleep before the next pass; after the last pass the loop is left
StartSleep ==
    /\ guard.pc = "sleep"
    /\ guard' = [guard EXCEPT !.pc = IF Len(guard.steps) < max_start_attempts
                                     THEN "start" ELSE "final_check"]
    /\ lastOp' = Env
    /\ UNCHANGED <<now, reminders, polls, chats, jobs, firings, sheetsInit, shReminders,
                   shPolls, shChats, blockedEver, fired, created, creating>>

\* the final status check after the loop, then updater.idle()
FinalCheck ==
    /\ guard.pc = "final_check"
    /\ guard' = [guard EXCEPT !.pc = "idle"]
    /\ lastOp' = Env
    /\ UNCHANGED <<now, reminders, polls, chats, jobs, firings, sheetsInit, shReminders,
                   shPolls, shChats, blockedEver, fired, created, creating>>

PollingStartNext ==
    \/ \E res \in StartResults : StartAttempt(res)
    \/ StartSleep
    \/ FinalCheck

PollingStartSpec == PollingStartInit /\ [][PollingStartNext]_vars

\* C39: the startup loop makes at most three start attempts; it stops at the
\* first success; after a third failed attempt no further attempt is made and
\* main returns instead of looping.
C39_AtMostThreeStartAttempts ==
    [][/\ Len(guard'.steps) <= 3
       /\ \A i \in 1..(Len(guard'.steps) - 1) : guard'.steps[i] # "ok"
       /\ (Len(guard'.steps) = 3 /\ guard'.steps[3] # "ok")
             => /\ guard'.pc = "returned"
                /\ ~guard'.polling
       /\ guard'.polling => guard'.steps[Len(guard'.steps)] = "ok"
       /\ guard.pc = "returned" => guard' = guard
       /\ guard.polling => guard'.steps = guard.steps]_vars

\* the third attempt has failed like the two before it, and main has returned
C39_Witness ==
    /\ guard.pc = "returned"
    /\ guard.steps = <<"conflict", "error", "conflict">>
    /\ guard.result = "failed"

====
